---- MODULE Spec2Model ----
(***************************************************************************)
(* The retrieval-augmented question-answering pipeline of ai-proj-3        *)
(* (src/ai-proj-3/src/backend/pipeline.py, utils.py, config.py): one       *)
(* RAGPipeline shared by several request threads that call ingest, query   *)
(* and history.                                                            *)
(***************************************************************************)
EXTENDS Integers, Sequences, FiniteSets, TLC

(* ------------------------------------------------------------------ *)
(* Bounds of the model and scaled-down settings                       *)
(* ------------------------------------------------------------------ *)
MaxIngests == 2
MaxQueries == 3
MaxHistories == 1

\* Settings (config.py), scaled down
chat_history_limit == 2
top_k == 2
chunk_size == 4
chunk_overlap == 1

\* text[:220] in the fallback summarizer
SnippetChars == 220

\* The request threads sharing the pipeline
Threads == {1, 2}
NoThread == 0

Min(a, b) == IF a < b THEN a ELSE b

(* ------------------------------------------------------------------ *)
(* The file system the ingestion reads                                *)
(* ------------------------------------------------------------------ *)
\* Entries in rglob("*") order; pages holds the character length of each
\* loaded page/section of the file.
FileSystem ==
  [ docs  |-> << [path |-> "docs/roaming.txt", name |-> "roaming.txt", stem |-> "roaming",
                  suffix |-> ".txt", is_dir |-> FALSE, pages |-> <<5>>],
                 [path |-> "docs/sub", name |-> "sub", stem |-> "sub",
                  suffix |-> "", is_dir |-> TRUE, pages |-> <<>>],
                 [path |-> "docs/sub/billing.MD", name |-> "billing.MD", stem |-> "billing",
                  suffix |-> ".MD", is_dir |-> FALSE, pages |-> <<3>>],
                 [path |-> "docs/logo.png", name |-> "logo.png", stem |-> "logo",
                  suffix |-> ".png", is_dir |-> FALSE, pages |-> <<2>>] >>,
    notes |-> << [path |-> "notes/plan.md", name |-> "plan.md", stem |-> "plan",
                  suffix |-> ".md", is_dir |-> FALSE, pages |-> <<2>>] >>,
    media |-> << [path |-> "media/logo.png", name |-> "logo.png", stem |-> "logo",
                  suffix |-> ".png", is_dir |-> FALSE, pages |-> <<2>>],
                 [path |-> "media/blank.txt", name |-> "blank.txt", stem |-> "blank",
                  suffix |-> ".txt", is_dir |-> FALSE, pages |-> <<0>>] >>,
    manual |-> << [path |-> "manual/guide.PDF", name |-> "guide.PDF", stem |-> "guide",
                  suffix |-> ".PDF", is_dir |-> FALSE, pages |-> <<5, 3>>],
                 [path |-> "manual/a.txt", name |-> "a.txt", stem |-> "a",
                  suffix |-> ".txt", is_dir |-> FALSE, pages |-> <<3>>],
                 [path |-> "manual/sub", name |-> "sub", stem |-> "sub",
                  suffix |-> "", is_dir |-> TRUE, pages |-> <<>>],
                 [path |-> "manual/sub/a.md", name |-> "a.md", stem |-> "a",
                  suffix |-> ".md", is_dir |-> FALSE, pages |-> <<2>>] >>,
    vacant |-> << >> ]

\* settings.docs_path
docs_path == "docs"

\* The source_dir arguments tried: None (the default), and explicit ones.
None == "None"
SourceDirs == {None, "notes", "media", "nowhere"}

\* directory = Path(source_dir or self.settings.docs_path)
effective_dir_default(source_dir) == docs_path

effective_dir(source_dir) == IF source_dir = None THEN docs_path ELSE source_dir

SUPPORTED_EXTENSIONS == {".pdf", ".txt", ".md"}

\* file_path.suffix.lower()
lower_identity(s) == s

lower(s) ==
  CASE s = ".MD"  -> ".md"
    [] s = ".TXT" -> ".txt"
    [] s = ".PDF" -> ".pdf"
    [] OTHER      -> s

(* ------------------------------------------------------------------ *)
(* utils.load_and_split_documents                                     *)
(* ------------------------------------------------------------------ *)
\* The splitter on one page of n characters: slices [from, to] of at most
\* size characters, consecutive slices overlapping by overlap characters.
RECURSIVE split_text(_, _, _, _)
split_text(from, n, size, overlap) ==
  IF from > n THEN <<>>
  ELSE IF from + size - 1 >= n THEN << [from |-> from, to |-> n] >>
  ELSE << [from |-> from, to |-> from + size - 1] >>
       \o split_text(from + size - overlap, n, size, overlap)

\* _load_file: one Document per page, with the loader's metadata.
_load_file(f) ==
  [p \in 1..Len(f.pages) |->
     [len |-> f.pages[p],
      metadata |-> [source |-> f.path, file_name |-> f.name,
                    page |-> IF lower(f.suffix) = ".pdf" THEN p - 1 ELSE -1]]]

\* splitter.split_documents: the chunks of every page, in page order.
RECURSIVE split_documents(_, _, _)
split_documents(loaded, size, overlap) ==
  IF loaded = <<>> THEN <<>>
  ELSE LET d == Head(loaded)
           parts == split_text(1, d.len, size, overlap)
       IN [i \in 1..Len(parts) |->
             [page_content |-> [source |-> d.metadata.source, page |-> d.metadata.page,
                                from |-> parts[i].from, to |-> parts[i].to],
              metadata |-> d.metadata]]
          \o split_documents(Tail(loaded), size, overlap)

\* chunk.metadata["chunk_id"] = f"{file_path.stem}-{idx}"
chunk_id_one_based(stem, idx) == <<stem, idx + 1>>
chunk_id_stem_only(stem, idx) == <<stem, 0>>

chunk_id(stem, idx) == <<stem, idx>>

\* The loop over directory.rglob("*"), numbering the chunks over the whole scan
RECURSIVE scan_running_ids(_, _, _, _, _)
scan_running_ids(entries, size, overlap, documents, metrics) ==
  IF entries = <<>> THEN [documents |-> documents, metrics |-> metrics]
  ELSE LET f == Head(entries) IN
       IF f.is_dir \/ lower(f.suffix) \notin SUPPORTED_EXTENSIONS
       THEN scan_running_ids(Tail(entries), size, overlap, documents, metrics)
       ELSE LET loaded_docs == _load_file(f)
                chunks == split_documents(loaded_docs, size, overlap)
                tagged == [i \in 1..Len(chunks) |->
                             [page_content |-> chunks[i].page_content,
                              metadata |-> [source |-> chunks[i].metadata.source,
                                            file_name |-> chunks[i].metadata.file_name,
                                            page |-> chunks[i].metadata.page,
                                            chunk_id |-> chunk_id(f.stem, Len(documents) + i - 1)]]]
            IN scan_running_ids(Tail(entries), size, overlap, documents \o tagged,
                    [files |-> metrics.files + 1,
                     pages |-> metrics.pages + Len(loaded_docs),
                     chunks |-> metrics.chunks + Len(chunks)])

\* The loop over directory.rglob("*"): (documents, metrics) after the entries.
RECURSIVE scan(_, _, _, _, _)
scan(entries, size, overlap, documents, metrics) ==
  IF entries = <<>> THEN [documents |-> documents, metrics |-> metrics]
  ELSE LET f == Head(entries) IN
       IF f.is_dir \/ lower(f.suffix) \notin SUPPORTED_EXTENSIONS
       THEN scan(Tail(entries), size, overlap, documents, metrics)
       ELSE LET loaded_docs == _load_file(f)
                chunks == split_documents(loaded_docs, size, overlap)
                tagged == [i \in 1..Len(chunks) |->
                             [page_content |-> chunks[i].page_content,
                              metadata |-> [source |-> chunks[i].metadata.source,
                                            file_name |-> chunks[i].metadata.file_name,
                                            page |-> chunks[i].metadata.page,
                                            chunk_id |-> chunk_id(f.stem, i - 1)]]]
            IN scan(Tail(entries), size, overlap, documents \o tagged,
                    [files |-> metrics.files + 1,
                     pages |-> metrics.pages + Len(loaded_docs),
                     chunks |-> metrics.chunks + Len(chunks)])

\* The orders in which directory.rglob("*") may list n entries
Orders(n) == {o \in [1..n -> 1..n] : \A i, j \in 1..n : o[i] = o[j] => i = j}
listed_order(directory) ==
  IF directory \in DOMAIN FileSystem
  THEN [i \in 1..Len(FileSystem[directory]) |-> i] ELSE <<>>
Listings(directory) ==
  IF directory \in DOMAIN FileSystem THEN Orders(Len(FileSystem[directory])) ELSE {<<>>}

\* directory.rglob("*") listing the entries in the given order
rglob(directory, order) == [i \in DOMAIN order |-> FileSystem[directory][order[i]]]

\* "if not documents: raise ValueError"
not_documents_never(documents) == FALSE

not_documents(documents) == documents = <<>>

\* load_and_split_documents with the listing order of rglob given: an error
\* name, or the documents and metrics.
load_and_split_listing(directory, order, size, overlap) ==
  IF directory \notin DOMAIN FileSystem
  THEN [error |-> "FileNotFoundError", documents |-> <<>>, metrics |-> [files |-> 0, pages |-> 0, chunks |-> 0]]
  ELSE LET r == scan(rglob(directory, order), size, overlap, <<>>,
                     [files |-> 0, pages |-> 0, chunks |-> 0])
       IN IF not_documents(r.documents)
          THEN [error |-> "ValueError", documents |-> <<>>, metrics |-> r.metrics]
          ELSE [error |-> "", documents |-> r.documents, metrics |-> r.metrics]

\* load_and_split_documents with the entries listed as FileSystem gives them
load_and_split_documents(directory, size, overlap) ==
  load_and_split_listing(directory, listed_order(directory), size, overlap)

(* ------------------------------------------------------------------ *)
(* Pure helpers of pipeline.py and utils.py                           *)
(* ------------------------------------------------------------------ *)
\* str.strip() on a sequence of characters: blanks and line breaks go
newline == "\n"
whitespace == {" ", newline}

RECURSIVE lstrip(_)
lstrip(s) == IF s # <<>> /\ Head(s) \in whitespace THEN lstrip(Tail(s)) ELSE s

RECURSIVE rstrip(_)
rstrip(s) ==
  IF s # <<>> /\ s[Len(s)] \in whitespace THEN rstrip(SubSeq(s, 1, Len(s) - 1)) ELSE s

strip_identity(s) == s

strip(s) == rstrip(lstrip(s))

\* threading.Lock: "with self._lock" is entered only while nobody holds it
can_acquire_unlocked(l) == TRUE

can_acquire(l) == l = NoThread

\* deque(maxlen=...).appendleft: the new entry at the head, the tail evicted
appendleft_unbounded(h, e, maxlen) == <<e>> \o h

appendleft_keep_old(h, e, maxlen) == IF Len(h) >= maxlen THEN h ELSE <<e>> \o h

append_right(h, e, maxlen) ==
  SubSeq(h \o <<e>>, Len(h) + 2 - Min(Len(h) + 1, maxlen), Len(h) + 1)

appendleft(h, e, maxlen) == SubSeq(<<e>> \o h, 1, Min(Len(h) + 1, maxlen))

\* history(limit): lim = limit or chat_history_limit; list(history)[0:lim]
NoLimit == -1

history_slice_tail(h, limit) ==
  LET lim == IF limit = NoLimit \/ limit = 0 THEN chat_history_limit ELSE limit
  IN SubSeq(h, Len(h) - Min(lim, Len(h)) + 1, Len(h))

history_slice(h, limit) ==
  LET lim == IF limit = NoLimit \/ limit = 0 THEN chat_history_limit ELSE limit
  IN SubSeq(h, 1, Min(lim, Len(h)))

\* Vector store: add_documents stores one more chunk after those present
add_documents_dedup(idx, e) ==
  IF \E i \in DOMAIN idx : idx[i].doc.metadata.chunk_id = e.doc.metadata.chunk_id
  THEN idx ELSE Append(idx, e)

add_documents_upsert(idx, e) ==
  IF \E i \in DOMAIN idx : /\ idx[i].doc.metadata.chunk_id = e.doc.metadata.chunk_id
                           /\ idx[i].doc.metadata.source = e.doc.metadata.source
  THEN [i \in DOMAIN idx |->
          IF /\ idx[i].doc.metadata.chunk_id = e.doc.metadata.chunk_id
             /\ idx[i].doc.metadata.source = e.doc.metadata.source
          THEN e ELSE idx[i]]
  ELSE Append(idx, e)

add_documents(idx, e) == Append(idx, e)

\* Distance of a stored chunk to the question under the hash embedding
\* (a fixed, meaning-free function of both texts)
distance(q, d) ==
  (Len(q) * d.page_content.to + d.page_content.from + d.metadata.chunk_id[2]) % 3

nearest_one(S, q, idx) ==
  CHOOSE i \in S : \A j \in S :
    \/ distance(q, idx[i].doc) < distance(q, idx[j].doc)
    \/ distance(q, idx[i].doc) = distance(q, idx[j].doc) /\ i <= j

RECURSIVE nearest(_, _, _, _)
nearest(S, q, idx, k) ==
  IF k <= 0 \/ S = {} THEN <<>>
  ELSE LET b == nearest_one(S, q, idx)
       IN <<b>> \o nearest(S \ {b}, q, idx, k - 1)

\* similarity_search(question, k): the k nearest stored chunks, nearest first
similarity_search_threshold(idx, q, k) ==
  LET n == nearest({i \in DOMAIN idx : distance(q, idx[i].doc) = 0}, q, idx, k)
  IN [i \in 1..Len(n) |-> idx[n[i]].doc]

similarity_search_extra(idx, q, k) ==
  LET n == nearest(DOMAIN idx, q, idx, k + 1) IN [i \in 1..Len(n) |-> idx[n[i]].doc]

similarity_search(idx, q, k) ==
  LET n == nearest(DOMAIN idx, q, idx, k) IN [i \in 1..Len(n) |-> idx[n[i]].doc]

\* "if not docs"
no_docs_never(docs) == FALSE

no_docs(docs) == docs = <<>>

\* str(metadata.get("page", "n/a"))
page_str(p) == IF p < 0 THEN "n/a" ELSE <<"0", "1", "2", "3">>[p + 1]

\* utils.format_sources
format_sources_from_zero(documents) ==
  [rank \in 1..Len(documents) |->
     [rank |-> rank - 1,
      file |-> documents[rank].metadata.file_name,
      page |-> page_str(documents[rank].metadata.page),
      chunk_id |-> documents[rank].metadata.chunk_id,
      source |-> documents[rank].metadata.source]]

format_sources(documents) ==
  [rank \in 1..Len(documents) |->
     [rank |-> rank,
      file |-> documents[rank].metadata.file_name,
      page |-> page_str(documents[rank].metadata.page),
      chunk_id |-> documents[rank].metadata.chunk_id,
      source |-> documents[rank].metadata.source]]

\* The character at position i of a page: letters, with a blank and a line
\* break in every four characters
page_char(i) == IF i % 4 = 0 THEN newline ELSE IF i % 4 = 2 THEN " " ELSE "a"

\* doc.page_content: the characters of a chunk
text_of(c) == [i \in 1..(c.to - c.from + 1) |-> page_char(c.from + i - 1)]

\* doc.page_content.replace("\n", " ")
replace_newline(text) == [i \in DOMAIN text |-> IF text[i] = newline THEN " " ELSE text[i]]

\* context of _generate_answer: f"[Source {idx+1}] {doc.page_content.strip()}"
\* for every document, in order
context(documents) ==
  [idx \in 1..Len(documents) |->
     [label |-> idx, text |-> strip(text_of(documents[idx].page_content))]]

\* text[:220]
text_prefix_all(text, n) == text

text_prefix(text, n) == SubSeq(text, 1, Min(Len(text), n))

\* The deterministic fallback summarizer of _generate_answer: between its
\* fixed opening and closing sentences, f"[Source {idx}] {text[:220]}..."
\* for every document
fallback_answer(documents) ==
  [kind |-> "fallback",
   snippets |-> [idx \in 1..Len(documents) |->
                   [label |-> idx,
                    text |-> text_prefix(replace_newline(text_of(documents[idx].page_content)),
                                         SnippetChars) \o <<".", ".", ".">>]]]

\* response.content.strip() of a generative backend
llm_answer == [kind |-> "llm", snippets |-> <<>>]

\* str(response).strip(), or response.content.strip() of a response that is
\* not an answer (blank, an error text): returned as it is
unchecked_answer == [kind |-> "llm_unchecked", snippets |-> <<>>]

\* "I could not find relevant information in the knowledge base yet."
no_information_answer == [kind |-> "no_information", snippets |-> <<>>]

(* ------------------------------------------------------------------ *)
(* State of one RAGPipeline and of the threads calling it             *)
(* ------------------------------------------------------------------ *)
VARIABLES
  index,      \* _vectorstore: the stored chunks in insertion order, each with the ingest call that added it
  persisted,  \* how many stored chunks the last persist() wrote out
  lock,       \* _lock: the thread holding it, or NoThread
  history,    \* _history: the deque, head first
  llm,        \* _llm: whether a generative backend was built at construction
  pc,         \* where each thread stands in its call
  documents,  \* ingest: the chunks load_and_split_documents returned
  metrics,    \* ingest: its metrics
  added,      \* ingest: how many of its chunks add_documents has stored
  question,   \* query: clean_question
  docs,       \* query: the retrieved chunks
  answer,     \* query: the answer
  last,       \* the call that finished last: what it returned or raised, and what it saw
  workload,   \* how many calls of each kind the threads make in this run
  calls,      \* how many calls of each kind were started
  obs,        \* per call in progress, what it did and saw (for the properties only)
  appended,   \* how many history entries were appended so far
  returned,   \* the ingest calls that returned metrics: [call, chunks, directory]
  fn          \* a call of a function of the module on its own: its inputs, locals and results

vars == <<index, persisted, lock, history, llm, pc, documents, metrics, added,
          question, docs, answer, last, workload, calls, obs, appended, returned, fn>>

shared == <<index, persisted, lock, history>>
ivars == <<documents, metrics, added>>
qvars == <<question, docs, answer>>
config == <<llm, workload, fn>>
pipeline == <<index, persisted, lock, history, llm, pc, documents, metrics, added,
              question, docs, answer, last, workload, calls, obs, appended, returned>>

Questions == { <<>>, <<" ", " ">>, <<"a">>, <<" ", "b", "c", " ">> }
Limits == {NoLimit} \cup (0..(chat_history_limit + 1))

\* The runs explored: many ingests around one query, or many queries and
\* history calls after at most one ingest.
Workloads ==
  { [ingest |-> MaxIngests, query |-> 1, history |-> 0],
    [ingest |-> 1, query |-> MaxQueries, history |-> MaxHistories] }

NoMetrics == [files |-> 0, pages |-> 0, chunks |-> 0, collection_size |-> 0]
NoResult == [serial |-> 0, question |-> <<>>, answer |-> no_information_answer, sources |-> <<>>]
NoObs == [call |-> 0, source |-> None, context |-> <<>>, raw |-> <<>>, limit |-> NoLimit, llm_failed |-> FALSE, searches |-> 0, llm_calls |-> 0,
          after |-> {}, seen |-> 0, partial |-> FALSE, missed |-> FALSE, hist_n |-> 0]
NoFn == [op |-> "none"]
NoLast == [op |-> "none", error |-> "", metrics |-> NoMetrics, result |-> NoResult,
           items |-> <<>>, obs |-> NoObs]

\* How many chunks of ingest call c the index holds
stored_of(idx, c) == Cardinality({i \in DOMAIN idx : idx[i].call = c})

Init ==
  /\ index = <<>>
  /\ persisted = 0
  /\ lock = NoThread
  /\ history = <<>>
  /\ llm \in BOOLEAN
  /\ pc = [t \in Threads |-> "idle"]
  /\ documents = [t \in Threads |-> <<>>]
  /\ metrics = [t \in Threads |-> NoMetrics]
  /\ added = [t \in Threads |-> 0]
  /\ question = [t \in Threads |-> <<>>]
  /\ docs = [t \in Threads |-> <<>>]
  /\ answer = [t \in Threads |-> no_information_answer]
  /\ last = NoLast
  /\ workload \in Workloads
  /\ calls = [ingest |-> 0, query |-> 0, history |-> 0]
  /\ obs = [t \in Threads |-> NoObs]
  /\ appended = 0
  /\ returned = {}
  /\ fn = NoFn

(* ------------------------------------------------------------------ *)
(* RAGPipeline.ingest                                                 *)
(* ------------------------------------------------------------------ *)
\* directory = Path(source_dir or docs_path); load_and_split_documents(...),
\* rglob listing the directory in the given order
ingest_listed(t, source_dir, order) ==
  /\ pc[t] = "idle"
  /\ calls.ingest < workload.ingest
  /\ LET directory == effective_dir(source_dir)
         r == load_and_split_listing(directory, order, chunk_size, chunk_overlap)
     IN /\ calls' = [calls EXCEPT !.ingest = @ + 1]
        /\ IF r.error # ""
           THEN /\ last' = [NoLast EXCEPT !.op = "ingest", !.error = r.error,
                                          !.obs = [NoObs EXCEPT !.source = source_dir]]
                /\ UNCHANGED <<pc, ivars, obs>>
           ELSE /\ pc' = [pc EXCEPT ![t] = "ingest_lock"]
                /\ obs' = [obs EXCEPT ![t] = [NoObs EXCEPT !.call = calls.ingest + 1,
                                                           !.source = source_dir]]
                /\ documents' = [documents EXCEPT ![t] = r.documents]
                /\ metrics' = [metrics EXCEPT ![t] =
                                 [NoMetrics EXCEPT !.files = r.metrics.files,
                                                   !.pages = r.metrics.pages,
                                                   !.chunks = r.metrics.chunks]]
                /\ added' = [added EXCEPT ![t] = 0]
                /\ UNCHANGED last
  /\ UNCHANGED <<shared, config, qvars, appended, returned>>

\* ingest with the directory listed as FileSystem gives it
ingest_begin(t, source_dir) ==
  ingest_listed(t, source_dir, listed_order(effective_dir(source_dir)))

\* with self._lock:
ingest_acquire(t) ==
  /\ pc[t] = "ingest_lock"
  /\ can_acquire(lock)
  /\ lock' = t
  /\ pc' = [pc EXCEPT ![t] = "ingest_add"]
  /\ UNCHANGED <<index, persisted, history, config, ivars, qvars, last, calls, obs,
                 appended, returned>>

\* self._vectorstore.add_documents(documents): the chunks are stored one
\* after the other
ingest_add(t) ==
  /\ pc[t] = "ingest_add"
  /\ added[t] < Len(documents[t])
  /\ index' = add_documents(index, [doc |-> documents[t][added[t] + 1], call |-> obs[t].call])
  /\ added' = [added EXCEPT ![t] = @ + 1]
  /\ pc' = [pc EXCEPT ![t] = IF added[t] + 1 = Len(documents[t])
                             THEN "ingest_persist" ELSE "ingest_add"]
  /\ UNCHANGED <<persisted, lock, history, config, documents, metrics, qvars, last,
                 calls, obs, appended, returned>>

\* self._vectorstore.persist(), then the lock is released
ingest_persist(t) ==
  /\ pc[t] = "ingest_persist"
  /\ persisted' = Len(index)
  /\ lock' = NoThread
  /\ pc' = [pc EXCEPT ![t] = "ingest_count"]
  /\ UNCHANGED <<index, history, config, ivars, qvars, last, calls, obs, appended, returned>>

\* metrics["collection_size"] = collection.count(); return metrics
ingest_count_own(t) ==
  /\ pc[t] = "ingest_count"
  /\ last' = [NoLast EXCEPT !.op = "ingest", !.obs = obs[t],
                            !.metrics = [metrics[t] EXCEPT !.collection_size = metrics[t].chunks]]
  /\ returned' = returned \cup {[call |-> obs[t].call, chunks |-> metrics[t].chunks,
                                  directory |-> effective_dir(obs[t].source)]}
  /\ pc' = [pc EXCEPT ![t] = "idle"]
  /\ obs' = [obs EXCEPT ![t] = NoObs]
  /\ documents' = [documents EXCEPT ![t] = <<>>]
  /\ metrics' = [metrics EXCEPT ![t] = NoMetrics]
  /\ added' = [added EXCEPT ![t] = 0]
  /\ UNCHANGED <<shared, config, qvars, calls, appended>>

ingest_count(t) ==
  /\ pc[t] = "ingest_count"
  /\ last' = [NoLast EXCEPT !.op = "ingest", !.obs = obs[t],
                            !.metrics = [metrics[t] EXCEPT !.collection_size = Len(index)]]
  /\ returned' = returned \cup {[call |-> obs[t].call, chunks |-> metrics[t].chunks,
                                  directory |-> effective_dir(obs[t].source)]}
  /\ pc' = [pc EXCEPT ![t] = "idle"]
  /\ obs' = [obs EXCEPT ![t] = NoObs]
  /\ documents' = [documents EXCEPT ![t] = <<>>]
  /\ metrics' = [metrics EXCEPT ![t] = NoMetrics]
  /\ added' = [added EXCEPT ![t] = 0]
  /\ UNCHANGED <<shared, config, qvars, calls, appended>>

(* ------------------------------------------------------------------ *)
(* RAGPipeline.query                                                  *)
(* ------------------------------------------------------------------ *)
\* clean_question = question.strip(); raise ValueError when it is empty
query_begin(t, q) ==
  /\ pc[t] = "idle"
  /\ calls.query < workload.query
  /\ LET clean_question == strip(q)
     IN /\ calls' = [calls EXCEPT !.query = @ + 1]
        /\ IF clean_question = <<>>
           THEN /\ last' = [NoLast EXCEPT !.op = "query", !.error = "ValueError",
                                          !.obs = [NoObs EXCEPT !.raw = q]]
                /\ UNCHANGED <<pc, question, obs>>
           ELSE /\ pc' = [pc EXCEPT ![t] = "query_search"]
                /\ question' = [question EXCEPT ![t] = clean_question]
                /\ obs' = [obs EXCEPT ![t] = [NoObs EXCEPT !.raw = q, !.after = returned]]
                /\ UNCHANGED last
  /\ UNCHANGED <<shared, config, ivars, docs, answer, appended, returned>>

\* docs = similarity_search(clean_question, k=top_k); the fixed answer when
\* nothing was retrieved
query_search(t) ==
  /\ pc[t] = "query_search"
  /\ LET found == similarity_search(index, question[t], top_k)
         seeing == [obs[t] EXCEPT
                      !.searches = @ + 1,
                      !.seen = Len(index),
                      !.partial = \E u \in Threads : pc[u] = "ingest_add" /\ added[u] > 0,
                      !.missed = \E r \in obs[t].after : stored_of(index, r.call) < r.chunks]
     IN IF no_docs(found)
        THEN /\ last' = [NoLast EXCEPT !.op = "query", !.obs = seeing,
                                       !.result = [NoResult EXCEPT !.question = question[t]]]
             /\ pc' = [pc EXCEPT ![t] = "idle"]
             /\ question' = [question EXCEPT ![t] = <<>>]
             /\ obs' = [obs EXCEPT ![t] = NoObs]
             /\ UNCHANGED <<docs>>
        ELSE /\ docs' = [docs EXCEPT ![t] = found]
             /\ pc' = [pc EXCEPT ![t] = "query_generate"]
             /\ obs' = [obs EXCEPT ![t] = seeing]
             /\ UNCHANGED <<last, question>>
  /\ UNCHANGED <<shared, config, ivars, answer, calls, appended, returned>>

\* _generate_answer without a backend: the fallback summarizer
generate_heuristic(t) ==
  /\ pc[t] = "query_generate"
  /\ ~llm
  /\ answer' = [answer EXCEPT ![t] = fallback_answer(docs[t])]
  /\ obs' = [obs EXCEPT ![t].context = context(docs[t])]
  /\ pc' = [pc EXCEPT ![t] = "query_lock"]
  /\ UNCHANGED <<shared, config, ivars, question, docs, last, calls, appended, returned>>

\* _generate_answer with a backend whose invoke returns
generate_llm(t) ==
  /\ pc[t] = "query_generate"
  /\ llm
  /\ answer' = [answer EXCEPT ![t] = llm_answer]
  /\ obs' = [obs EXCEPT ![t].context = context(docs[t]), ![t].llm_calls = @ + 1]
  /\ pc' = [pc EXCEPT ![t] = "query_lock"]
  /\ UNCHANGED <<shared, config, ivars, question, docs, last, calls, appended, returned>>

\* _generate_answer with a backend whose invoke raises: the exception is
\* logged and the fallback summarizer answers
generate_llm_failed_again(t) ==
  /\ pc[t] = "query_generate"
  /\ llm
  /\ obs[t].llm_calls < 2
  /\ obs' = [obs EXCEPT ![t].context = context(docs[t]), ![t].llm_calls = @ + 1,
                        ![t].llm_failed = TRUE]
  /\ answer' = [answer EXCEPT ![t] = fallback_answer(docs[t])]
  /\ pc' = [pc EXCEPT ![t] = IF obs[t].llm_calls = 0 THEN "query_generate" ELSE "query_lock"]
  /\ UNCHANGED <<shared, config, ivars, question, docs, last, calls, appended, returned>>

generate_llm_failed(t) ==
  /\ pc[t] = "query_generate"
  /\ llm
  /\ answer' = [answer EXCEPT ![t] = fallback_answer(docs[t])]
  /\ obs' = [obs EXCEPT ![t].context = context(docs[t]), ![t].llm_calls = @ + 1,
                        ![t].llm_failed = TRUE]
  /\ pc' = [pc EXCEPT ![t] = "query_lock"]
  /\ UNCHANGED <<shared, config, ivars, question, docs, last, calls, appended, returned>>

\* _generate_answer with a backend whose invoke returns a malformed response
\* without raising: no test is made, the response text is the answer
generate_llm_malformed(t) ==
  /\ pc[t] = "query_generate"
  /\ llm
  /\ answer' = [answer EXCEPT ![t] = unchecked_answer]
  /\ obs' = [obs EXCEPT ![t].context = context(docs[t]), ![t].llm_calls = @ + 1,
                        ![t].llm_failed = TRUE]
  /\ pc' = [pc EXCEPT ![t] = "query_lock"]
  /\ UNCHANGED <<shared, config, ivars, question, docs, last, calls, appended, returned>>

\* with self._lock:
query_acquire(t) ==
  /\ pc[t] = "query_lock"
  /\ can_acquire(lock)
  /\ lock' = t
  /\ pc' = [pc EXCEPT ![t] = "query_append"]
  /\ UNCHANGED <<index, persisted, history, config, ivars, qvars, last, calls, obs,
                 appended, returned>>

\* self._history.appendleft(result); the lock is released; return result
query_append(t) ==
  /\ pc[t] = "query_append"
  /\ LET result == [serial |-> appended + 1, question |-> question[t],
                    answer |-> answer[t], sources |-> format_sources(docs[t])]
     IN /\ history' = appendleft(history, result, chat_history_limit)
        /\ last' = [NoLast EXCEPT !.op = "query", !.obs = obs[t], !.result = result]
  /\ appended' = appended + 1
  /\ lock' = NoThread
  /\ pc' = [pc EXCEPT ![t] = "idle"]
  /\ obs' = [obs EXCEPT ![t] = NoObs]
  /\ question' = [question EXCEPT ![t] = <<>>]
  /\ docs' = [docs EXCEPT ![t] = <<>>]
  /\ answer' = [answer EXCEPT ![t] = no_information_answer]
  /\ UNCHANGED <<index, persisted, config, ivars, calls, returned>>

(* ------------------------------------------------------------------ *)
(* RAGPipeline.history                                                *)
(* ------------------------------------------------------------------ *)
history_call(t, limit) ==
  /\ pc[t] = "idle"
  /\ calls.history < workload.history
  /\ calls' = [calls EXCEPT !.history = @ + 1]
  /\ last' = [NoLast EXCEPT !.op = "history",
                            !.obs = [NoObs EXCEPT !.limit = limit, !.hist_n = appended],
                            !.items = history_slice(history, limit)]
  /\ UNCHANGED <<shared, config, pc, ivars, qvars, obs, appended, returned>>

Next ==
  \E t \in Threads :
    \/ \E d \in SourceDirs : ingest_begin(t, d)
    \/ ingest_acquire(t)
    \/ ingest_add(t)
    \/ ingest_persist(t)
    \/ ingest_count(t)
    \/ \E q \in Questions : query_begin(t, q)
    \/ query_search(t)
    \/ generate_heuristic(t)
    \/ generate_llm(t)
    \/ generate_llm_failed(t)
    \/ generate_llm_malformed(t)
    \/ query_acquire(t)
    \/ query_append(t)
    \/ \E l \in Limits : history_call(t, l)

Spec == Init /\ [][Next]_vars

(* ------------------------------------------------------------------ *)
(* Ingestion alone: one caller ingesting directory after directory,   *)
(* rglob listing each directory in any order                          *)
(* ------------------------------------------------------------------ *)
Caller == 1
IngestDirs == {None, "notes", "media", "nowhere", "manual", "vacant"}

InitIngest ==
  /\ index = <<>>
  /\ persisted = 0
  /\ lock = NoThread
  /\ history = <<>>
  /\ llm = FALSE
  /\ pc = [t \in Threads |-> "idle"]
  /\ documents = [t \in Threads |-> <<>>]
  /\ metrics = [t \in Threads |-> NoMetrics]
  /\ added = [t \in Threads |-> 0]
  /\ question = [t \in Threads |-> <<>>]
  /\ docs = [t \in Threads |-> <<>>]
  /\ answer = [t \in Threads |-> no_information_answer]
  /\ last = NoLast
  /\ workload = [ingest |-> MaxIngests, query |-> 0, history |-> 0]
  /\ calls = [ingest |-> 0, query |-> 0, history |-> 0]
  /\ obs = [t \in Threads |-> NoObs]
  /\ appended = 0
  /\ returned = {}
  /\ fn = NoFn

NextIngest ==
  \/ \E d \in IngestDirs : \E o \in Listings(effective_dir(d)) : ingest_listed(Caller, d, o)
  \/ ingest_acquire(Caller)
  \/ ingest_add(Caller)
  \/ ingest_persist(Caller)
  \/ ingest_count(Caller)

SpecIngest == InitIngest /\ [][NextIngest]_vars

(* ------------------------------------------------------------------ *)
(* One caller: an ingest of any directory and a query, one call after  *)
(* the other                                                           *)
(* ------------------------------------------------------------------ *)
InitSequential ==
  /\ index = <<>>
  /\ persisted = 0
  /\ lock = NoThread
  /\ history = <<>>
  /\ llm \in BOOLEAN
  /\ pc = [t \in Threads |-> "idle"]
  /\ documents = [t \in Threads |-> <<>>]
  /\ metrics = [t \in Threads |-> NoMetrics]
  /\ added = [t \in Threads |-> 0]
  /\ question = [t \in Threads |-> <<>>]
  /\ docs = [t \in Threads |-> <<>>]
  /\ answer = [t \in Threads |-> no_information_answer]
  /\ last = NoLast
  /\ workload = [ingest |-> 1, query |-> MaxQueries, history |-> 0]
  /\ calls = [ingest |-> 0, query |-> 0, history |-> 0]
  /\ obs = [t \in Threads |-> NoObs]
  /\ appended = 0
  /\ returned = {}
  /\ fn = NoFn

NextSequential ==
  \/ \E d \in IngestDirs : ingest_begin(Caller, d)
  \/ ingest_acquire(Caller)
  \/ ingest_add(Caller)
  \/ ingest_persist(Caller)
  \/ ingest_count(Caller)
  \/ \E q \in Questions : query_begin(Caller, q)
  \/ query_search(Caller)
  \/ generate_heuristic(Caller)
  \/ generate_llm(Caller)
  \/ generate_llm_failed(Caller)
  \/ generate_llm_malformed(Caller)
  \/ query_acquire(Caller)
  \/ query_append(Caller)

SpecSequential == InitSequential /\ [][NextSequential]_vars

(* ------------------------------------------------------------------ *)
(* history in its two steps, list(self._history) and the slice, next   *)
(* to the queries of another caller                                    *)
(* ------------------------------------------------------------------ *)
NoSnapshot == [limit |-> NoLimit, items |-> <<>>, hist_n |-> 0]

InitHistory ==
  /\ index = <<>>
  /\ persisted = 0
  /\ lock = NoThread
  /\ history = <<>>
  /\ llm = FALSE
  /\ pc = [t \in Threads |-> "idle"]
  /\ documents = [t \in Threads |-> <<>>]
  /\ metrics = [t \in Threads |-> NoMetrics]
  /\ added = [t \in Threads |-> 0]
  /\ question = [t \in Threads |-> <<>>]
  /\ docs = [t \in Threads |-> <<>>]
  /\ answer = [t \in Threads |-> no_information_answer]
  /\ last = NoLast
  /\ workload = [ingest |-> 1, query |-> MaxQueries, history |-> MaxHistories]
  /\ calls = [ingest |-> 0, query |-> 0, history |-> 0]
  /\ obs = [t \in Threads |-> NoObs]
  /\ appended = 0
  /\ returned = {}
  /\ fn = [op |-> "history", snapshot |-> [t \in Threads |-> NoSnapshot]]

\* lim = limit or chat_history_limit; list(self._history): the copy of the
\* deque, taken in one piece (the interpreter runs no other thread meanwhile)
history_list(t, limit) ==
  /\ pc[t] = "idle"
  /\ calls.history < workload.history
  /\ calls' = [calls EXCEPT !.history = @ + 1]
  /\ pc' = [pc EXCEPT ![t] = "history_slice"]
  /\ fn' = [fn EXCEPT !.snapshot[t] = [limit |-> limit, items |-> history, hist_n |-> appended]]
  /\ UNCHANGED <<shared, llm, workload, ivars, qvars, last, obs, appended, returned>>

\* return list(...[0:lim])
history_return(t) ==
  /\ pc[t] = "history_slice"
  /\ last' = [NoLast EXCEPT !.op = "history",
                            !.obs = [NoObs EXCEPT !.limit = fn.snapshot[t].limit,
                                                  !.hist_n = fn.snapshot[t].hist_n,
                                                  !.seen = appended],
                            !.items = history_slice(fn.snapshot[t].items, fn.snapshot[t].limit)]
  /\ pc' = [pc EXCEPT ![t] = "idle"]
  /\ fn' = [fn EXCEPT !.snapshot[t] = NoSnapshot]
  /\ UNCHANGED <<shared, llm, workload, ivars, qvars, calls, obs, appended, returned>>

NextHistory ==
  \E t \in Threads :
    \/ ingest_begin(t, "notes")
    \/ ingest_acquire(t)
    \/ ingest_add(t)
    \/ ingest_persist(t)
    \/ ingest_count(t)
    \/ \E q \in Questions : query_begin(t, q)
    \/ query_search(t)
    \/ generate_heuristic(t)
    \/ query_acquire(t)
    \/ query_append(t)
    \/ \E l \in Limits : history_list(t, l)
    \/ history_return(t)

SpecHistory == InitHistory /\ [][NextHistory]_vars

(* ------------------------------------------------------------------ *)
(* Progress: two callers, a vector store whose addition may raise, the *)
(* threads scheduled fairly                                            *)
(* ------------------------------------------------------------------ *)
InitLive ==
  /\ index = <<>>
  /\ persisted = 0
  /\ lock = NoThread
  /\ history = <<>>
  /\ llm \in BOOLEAN
  /\ pc = [t \in Threads |-> "idle"]
  /\ documents = [t \in Threads |-> <<>>]
  /\ metrics = [t \in Threads |-> NoMetrics]
  /\ added = [t \in Threads |-> 0]
  /\ question = [t \in Threads |-> <<>>]
  /\ docs = [t \in Threads |-> <<>>]
  /\ answer = [t \in Threads |-> no_information_answer]
  /\ last = NoLast
  /\ workload = [ingest |-> MaxIngests, query |-> MaxIngests, history |-> 0]
  /\ calls = [ingest |-> 0, query |-> 0, history |-> 0]
  /\ obs = [t \in Threads |-> NoObs]
  /\ appended = 0
  /\ returned = {}
  /\ fn = NoFn

\* add_documents or persist raises inside "with self._lock": the with
\* statement releases the lock and the exception leaves ingest
ingest_add_raises(t) ==
  /\ pc[t] \in {"ingest_add", "ingest_persist"}
  /\ lock' = NoThread
  /\ last' = [NoLast EXCEPT !.op = "ingest", !.error = "Exception", !.obs = obs[t]]
  /\ pc' = [pc EXCEPT ![t] = "idle"]
  /\ obs' = [obs EXCEPT ![t] = NoObs]
  /\ documents' = [documents EXCEPT ![t] = <<>>]
  /\ metrics' = [metrics EXCEPT ![t] = NoMetrics]
  /\ added' = [added EXCEPT ![t] = 0]
  /\ UNCHANGED <<index, persisted, history, config, qvars, calls, appended, returned>>

NextLive ==
  \E t \in Threads :
    \/ ingest_begin(t, "notes")
    \/ ingest_acquire(t)
    \/ ingest_add(t)
    \/ ingest_add_raises(t)
    \/ ingest_persist(t)
    \/ ingest_count(t)
    \/ query_begin(t, <<"a">>)
    \/ query_search(t)
    \/ generate_heuristic(t)
    \/ generate_llm(t)
    \/ generate_llm_failed(t)
    \/ generate_llm_malformed(t)
    \/ query_acquire(t)
    \/ query_append(t)

\* Every thread that can take a step of its call takes one in the end; when
\* self._llm.invoke returns is up to the backend: the call is given no timeout
FairLive ==
  \A t \in Threads :
    /\ WF_vars(ingest_acquire(t))
    /\ WF_vars(ingest_add(t) \/ ingest_add_raises(t))
    /\ WF_vars(ingest_persist(t) \/ ingest_add_raises(t))
    /\ WF_vars(ingest_count(t))
    /\ WF_vars(query_search(t))
    /\ WF_vars(generate_heuristic(t))
    /\ WF_vars(query_acquire(t))
    /\ WF_vars(query_append(t))

SpecLive == InitLive /\ [][NextLive]_vars /\ FairLive

(* ------------------------------------------------------------------ *)
(* HashEmbeddingFunction: calls of _vectorize on one instance          *)
(* ------------------------------------------------------------------ *)
\* A character that str holds and UTF-8 cannot encode (a lone surrogate)
lone_surrogate == "U+D800"

\* ord(c) of the characters used
ord(c) ==
  CASE c = " " -> 32 [] c = "-" -> 45
    [] c = "0" -> 48 [] c = "1" -> 49 [] c = "2" -> 50 [] c = "3" -> 51 [] c = "4" -> 52
    [] c = "5" -> 53 [] c = "6" -> 54 [] c = "7" -> 55 [] c = "8" -> 56 [] c = "9" -> 57
    [] c = "a" -> 97 [] c = "b" -> 98 [] c = "e" -> 101 [] c = "m" -> 109
    [] c = "p" -> 112 [] c = "t" -> 116 [] c = "y" -> 121
    [] OTHER -> 55296

\* str(counter)
RECURSIVE str_int(_)
str_int(n) ==
  LET digit == << <<"0">>, <<"1">>, <<"2">>, <<"3">>, <<"4">>,
                  <<"5">>, <<"6">>, <<"7">>, <<"8">>, <<"9">> >>[(n % 10) + 1]
  IN IF n < 10 THEN digit ELSE str_int(n \div 10) \o digit

\* s.encode("utf-8"): the bytes, or the error raised for a lone surrogate
encode_utf8(s) ==
  IF \E i \in DOMAIN s : s[i] = lone_surrogate
  THEN [error |-> "UnicodeEncodeError", bytes |-> <<>>]
  ELSE [error |-> "", bytes |-> [i \in DOMAIN s |-> ord(s[i])]]

\* hashlib.sha256(bytes).digest(): DigestBytes bytes that depend on every
\* byte of the input and on nothing else (a stand-in for the real mixing)
DigestBytes == 32
RECURSIVE mix(_, _)
mix(bytes, h) ==
  IF bytes = <<>> THEN h ELSE mix(Tail(bytes), (h * 31 + Head(bytes)) % 65521)

sha256(bytes) == [i \in 1..DigestBytes |-> (mix(bytes, 7) * i + i * i) % 256]

\* seed = text.strip() or "empty"
empty == <<"e", "m", "p", "t", "y">>
seed_of_untrimmed(text) == IF text = <<>> THEN empty ELSE text

seed_of(text) == IF strip(text) = <<>> THEN empty ELSE strip(text)

\* byte / 255
component(byte) == [num |-> byte, den |-> 255]

\* The texts and dimensions tried
MaxDimension == 65
Dimensions == 0..MaxDimension
Texts == { <<>>, <<" ">>, <<"a">>, <<" ", "a", " ">>, <<"a", "b">>, <<"a", " ", "b">>,
           empty, <<lone_surrogate>> }
NoVector == [error |-> "", vector |-> <<>>, rounds |-> 0]

\* An instance with its dimension, and the texts of two calls to come
InitEmbed ==
  /\ index = <<>>
  /\ persisted = 0
  /\ lock = NoThread
  /\ history = <<>>
  /\ llm = FALSE
  /\ pc = [t \in Threads |-> "idle"]
  /\ documents = [t \in Threads |-> <<>>]
  /\ metrics = [t \in Threads |-> NoMetrics]
  /\ added = [t \in Threads |-> 0]
  /\ question = [t \in Threads |-> <<>>]
  /\ docs = [t \in Threads |-> <<>>]
  /\ answer = [t \in Threads |-> no_information_answer]
  /\ last = NoLast
  /\ workload = [ingest |-> 0, query |-> 0, history |-> 0]
  /\ calls = [ingest |-> 0, query |-> 0, history |-> 0]
  /\ obs = [t \in Threads |-> NoObs]
  /\ appended = 0
  /\ returned = {}
  /\ \E d \in Dimensions : \E t1, t2 \in Texts :
       fn = [op |-> "_vectorize", dimension |-> d, texts |-> <<t1, t2>>, k |-> 1,
             at |-> "call", seed |-> <<>>, counter |-> 0, vector |-> <<>>,
             out |-> <<NoVector, NoVector>>]

\* seed = text.strip() or "empty"; vector = []; counter = 0
vectorize_begin ==
  /\ fn.op = "_vectorize" /\ fn.at = "call" /\ fn.k <= Len(fn.texts)
  /\ fn' = [fn EXCEPT !.at = "while", !.seed = seed_of(fn.texts[fn.k]),
                      !.counter = 0, !.vector = <<>>]
  /\ UNCHANGED pipeline

\* One pass of the while loop: digest of f"{seed}-{counter}", the vector
\* extended by its bytes over 255; the encode error leaves the call
vectorize_round ==
  /\ fn.op = "_vectorize" /\ fn.at = "while"
  /\ Len(fn.vector) < fn.dimension
  /\ LET e == encode_utf8(fn.seed \o <<"-">> \o str_int(fn.counter))
         digest == sha256(e.bytes)
     IN IF e.error # ""
        THEN fn' = [fn EXCEPT !.at = "call", !.k = @ + 1,
                              !.out[fn.k] = [error |-> e.error, vector |-> <<>>,
                                             rounds |-> fn.counter],
                              !.seed = <<>>, !.counter = 0, !.vector = <<>>]
        ELSE fn' = [fn EXCEPT !.vector = @ \o [i \in 1..DigestBytes |-> component(digest[i])],
                              !.counter = @ + 1]
  /\ UNCHANGED pipeline

\* return vector[: self.dimension]
vectorize_return ==
  /\ fn.op = "_vectorize" /\ fn.at = "while"
  /\ Len(fn.vector) >= fn.dimension
  /\ fn' = [fn EXCEPT !.at = "call", !.k = @ + 1,
                      !.out[fn.k] = [error |-> "", rounds |-> fn.counter,
                                     vector |-> SubSeq(fn.vector, 1, fn.dimension)],
                      !.seed = <<>>, !.counter = 0, !.vector = <<>>]
  /\ UNCHANGED pipeline

NextEmbed == vectorize_begin \/ vectorize_round \/ vectorize_return

SpecEmbed == InitEmbed /\ [][NextEmbed]_vars

(* ------------------------------------------------------------------ *)
(* _generate_answer without a backend, on retrieved chunks of any size *)
(* ------------------------------------------------------------------ *)
MaxChunkChars == 224
MaxRetrieved == 3
ChunkLengths == {1, SnippetChars - 1, SnippetChars, SnippetChars + 1, MaxChunkChars}

\* A retrieved chunk of the given length, starting at the given position
retrieved(from, len) ==
  [page_content |-> [source |-> "docs/roaming.txt", page |-> -1,
                     from |-> from, to |-> from + len - 1],
   metadata |-> [source |-> "docs/roaming.txt", file_name |-> "roaming.txt",
                 page |-> -1, chunk_id |-> chunk_id("roaming", from)]]

InitAnswer ==
  /\ index = <<>>
  /\ persisted = 0
  /\ lock = NoThread
  /\ history = <<>>
  /\ llm = FALSE
  /\ pc = [t \in Threads |-> "idle"]
  /\ documents = [t \in Threads |-> <<>>]
  /\ metrics = [t \in Threads |-> NoMetrics]
  /\ added = [t \in Threads |-> 0]
  /\ question = [t \in Threads |-> <<>>]
  /\ docs = [t \in Threads |-> <<>>]
  /\ answer = [t \in Threads |-> no_information_answer]
  /\ last = NoLast
  /\ workload = [ingest |-> 0, query |-> 0, history |-> 0]
  /\ calls = [ingest |-> 0, query |-> 0, history |-> 0]
  /\ obs = [t \in Threads |-> NoObs]
  /\ appended = 0
  /\ returned = {}
  /\ \E n \in 1..MaxRetrieved :
       \E from \in [1..n -> 1..2] : \E len \in [1..n -> ChunkLengths] :
         fn = [op |-> "_generate_answer", at |-> "call",
               documents |-> [i \in 1..n |-> retrieved(from[i], len[i])],
               answer |-> no_information_answer]

\* _generate_answer(question, documents) with self._llm None
answer_fallback ==
  /\ fn.op = "_generate_answer" /\ fn.at = "call"
  /\ fn' = [fn EXCEPT !.at = "return", !.answer = fallback_answer(fn.documents)]
  /\ UNCHANGED pipeline

NextAnswer == answer_fallback

SpecAnswer == InitAnswer /\ [][NextAnswer]_vars

(* ------------------------------------------------------------------ *)
(* Properties                                                         *)
(* ------------------------------------------------------------------ *)
QueryPcs == {"query_search", "query_generate", "query_lock", "query_append"}
IsBlank(q) == \A i \in DOMAIN q : q[i] = " "

\* C1: in every reachable state the history holds at most
\* chat_history_limit entries.
C1_HistoryBounded == Len(history) <= chat_history_limit

C1_Witness == Len(history) = chat_history_limit /\ appended > chat_history_limit

\* C2: a history call made after n entries were appended never returns one
\* of the n - C oldest entries, and when n > C history(C) returns exactly
\* the C most recently appended entries, most recent first.
C2_HistoryKeepsMostRecent ==
  last.op = "history" =>
    LET n == last.obs.hist_n
        items == last.items
    IN /\ \A i \in DOMAIN items : items[i].serial > n - chat_history_limit
       /\ (n > chat_history_limit /\ last.obs.limit = chat_history_limit) =>
            /\ Len(items) = chat_history_limit
            /\ \A i \in DOMAIN items : items[i].serial = n - i + 1

C2_Witness ==
  /\ last.op = "history"
  /\ last.obs.hist_n > chat_history_limit
  /\ last.obs.limit = chat_history_limit
  /\ Len(last.items) = chat_history_limit

\* C3: history(limit) with any limit >= 0, zero included,
\* returns the min(limit, current length) most recently appended entries,
\* most recent first.
C3_HistoryReturnsAtMostLimit ==
  (last.op = "history" /\ last.obs.limit # NoLimit) =>
    /\ Len(last.items) = Min(last.obs.limit, Min(last.obs.hist_n, chat_history_limit))
    /\ \A i \in DOMAIN last.items : last.items[i].serial = last.obs.hist_n - i + 1

\* C4: a query whose question is blank raises ValueError in its first step:
\* it never reaches the similarity search or the answer generation, and the
\* step changes neither the index nor the history.
C4_BlankQuestionRejected ==
  [][ calls'.query # calls.query =>
        /\ \A t \in Threads : pc'[t] \in QueryPcs => ~IsBlank(obs'[t].raw)
        /\ pc' = pc =>
             /\ last'.op = "query" /\ last'.error = "ValueError"
             /\ IsBlank(last'.obs.raw)
             /\ last'.obs.searches = 0 /\ last'.obs.llm_calls = 0
             /\ index' = index /\ history' = history /\ persisted' = persisted ]_vars

C4_Witness ==
  last.op = "query" /\ last.error = "ValueError" /\ last.obs.raw = <<" ", " ">>

\* C5: a query with a non-blank question whose retrieval ran on an empty
\* index returns, without raising, the fixed answer and no sources, and never
\* reaches the answer generation (no backend call).
C5_EmptyIndexFixedAnswer ==
  /\ \A t \in Threads :
       pc[t] \in {"query_generate", "query_lock", "query_append"} => obs[t].seen > 0
  /\ (last.op = "query" /\ last.obs.searches = 1 /\ last.obs.seen = 0) =>
       /\ last.error = ""
       /\ last.result.answer = no_information_answer
       /\ last.result.sources = <<>>
       /\ last.obs.llm_calls = 0

C5_Witness ==
  /\ llm
  /\ last.op = "query" /\ last.error = "" /\ last.obs.searches = 1 /\ last.obs.seen = 0
  /\ ~IsBlank(last.obs.raw)
  /\ last.result.answer.kind = "no_information"

\* C6: every query with a non-blank question that returns a
\* result, whether or not chunks were retrieved, appends exactly one history
\* entry holding that result, so that history(1) then yields it.
C6_EveryResultAppended ==
  [][ \A t \in Threads :
        (pc[t] \in QueryPcs /\ pc'[t] = "idle") =>
          /\ appended' = appended + 1
          /\ history_slice(history', 1) = <<last'.result>> ]_vars

\* C7: the add-and-persist sections of two ingest calls never overlap: at
\* most one thread is inside one, the chunks of one call lie next to each
\* other in the index, and the index holds every chunk of every ingest that
\* has returned.
C7_IngestWritesSerialized ==
  /\ Cardinality({t \in Threads : pc[t] \in {"ingest_add", "ingest_persist"}}) <= 1
  /\ \A i, j \in DOMAIN index :
       (i < j /\ index[i].call = index[j].call) =>
         \A k \in i..j : index[k].call = index[i].call
  /\ \A r \in returned : stored_of(index, r.call) = r.chunks

\* One ingest began, stored its chunks first and has not returned yet, while
\* the other stored its chunks after them and has returned.
C7_Witness ==
  \E t \in Threads :
    /\ pc[t] = "ingest_count"
    /\ last.op = "ingest" /\ last.error = ""
    /\ Cardinality(returned) = 1
    /\ index[1].call = obs[t].call
    /\ metrics[t].chunks >= 2
    /\ Len(index) = metrics[t].chunks + last.metrics.chunks

\* C8: no query performs its retrieval while an ingest has
\* stored only some of its chunks.
C8_QueryNeverSeesPartialIngest ==
  /\ \A t \in Threads : ~obs[t].partial
  /\ ~last.obs.partial

\* C9: the retrieval of a query runs over an index that holds all chunks of
\* every ingest that had returned before the query started.
C9_ReadAfterWrite ==
  /\ \A t \in Threads : ~obs[t].missed
  /\ ~last.obs.missed

C9_Witness ==
  /\ last.op = "query" /\ last.obs.searches = 1
  /\ last.obs.after # {}
  /\ last.obs.seen >= 3

\* C10: a query returns at most top_k sources and at most as many as the
\* index held at its retrieval; with fewer than top_k chunks indexed it
\* returns all of them.
C10_SourcesBounded ==
  /\ (last.op = "query" /\ last.error = "") =>
       /\ Len(last.result.sources) <= top_k
       /\ Len(last.result.sources) <= last.obs.seen
       /\ last.obs.seen < top_k => Len(last.result.sources) = last.obs.seen
  /\ \A t \in Threads :
       pc[t] \in {"query_generate", "query_lock", "query_append"} =>
         Len(docs[t]) = Min(top_k, obs[t].seen)

C10_Witness ==
  /\ last.op = "query" /\ last.error = ""
  /\ last.obs.seen > top_k
  /\ Len(last.result.sources) = top_k

\* C11: an ingest whose effective directory (the explicit source_dir when
\* given, settings.docs_path otherwise) does not exist returns
\* FileNotFoundError in the very step that starts it, never reaches the lock,
\* and leaves index, persisted store, lock and history as they were; an ingest
\* that goes on holds only chunks of files of its effective directory.
C11_MissingDirectoryRaises ==
  [][ calls'.ingest # calls.ingest =>
        /\ \A t \in Threads :
             (pc[t] = "idle" /\ pc'[t] = "ingest_lock") =>
               LET src == obs'[t].source
                   dir == IF src = None THEN docs_path ELSE src
               IN /\ dir \in DOMAIN FileSystem
                  /\ \A i \in DOMAIN documents'[t] :
                       \E k \in DOMAIN FileSystem[dir] :
                         documents'[t][i].metadata.source = FileSystem[dir][k].path
        /\ (pc' = pc) =>
               LET src == last'.obs.source
                   dir == IF src = None THEN docs_path ELSE src
               IN /\ last'.op = "ingest"
                  /\ (dir \notin DOMAIN FileSystem) <=> (last'.error = "FileNotFoundError")
                  /\ (dir \notin DOMAIN FileSystem) =>
                       /\ index' = index /\ persisted' = persisted
                       /\ lock' = lock /\ history' = history
    ]_vars

\* An ingest of the missing directory failed while the index held chunks and
\* another call held the lock.
C11_Witness ==
  /\ last.op = "ingest" /\ last.error = "FileNotFoundError"
  /\ last.obs.source = "nowhere"
  /\ Len(index) > 0 /\ lock # NoThread

IngestPcs == {"ingest_lock", "ingest_add", "ingest_persist", "ingest_count"}
DirOf(src) == IF src = None THEN docs_path ELSE src

\* A directory that exists and has no file with text in a supported format:
\* only sub-directories, unsupported files, files without characters, or nothing
ZeroCorpus(dir) ==
  /\ dir \in DOMAIN FileSystem
  /\ \A k \in DOMAIN FileSystem[dir] :
       LET f == FileSystem[dir][k]
       IN \/ f.is_dir
          \/ f.suffix \notin {".pdf", ".txt", ".md", ".PDF", ".TXT", ".MD"}
          \/ \A p \in DOMAIN f.pages : f.pages[p] = 0

\* C12: an ingest of an existing directory without any chunk (only
\* unsupported files, only empty files, or no files) returns ValueError and
\* no call on such a directory ever gets to the index, so the index holds
\* chunks of other directories only; every ingest that returns metrics
\* reports chunks >= 1 and files >= 1.
C12_EmptyCorpusRaises ==
  /\ (last.op = "ingest" /\ DirOf(last.obs.source) \in DOMAIN FileSystem) =>
       (ZeroCorpus(DirOf(last.obs.source)) <=> last.error = "ValueError")
  /\ \A t \in Threads : pc[t] \in IngestPcs => ~ZeroCorpus(DirOf(obs[t].source))
  /\ \A r \in returned : ~ZeroCorpus(r.directory)
  /\ \A i \in DOMAIN index :
       \/ \E r \in returned : r.call = index[i].call
       \/ \E t \in Threads : pc[t] \in IngestPcs /\ obs[t].call = index[i].call
  /\ (last.op = "ingest" /\ last.error = "") =>
       (last.metrics.chunks >= 1 /\ last.metrics.files >= 1)

\* The ingest of the directory without files failed after an earlier ingest
\* had filled the index, which still holds exactly the earlier chunks.
C12_Witness ==
  /\ last.op = "ingest" /\ last.error = "ValueError"
  /\ last.obs.source = "vacant"
  /\ \E r \in returned : Len(index) = r.chunks /\ r.chunks > 0

\* The file of the tree with the given path
FileAt(path) ==
  CHOOSE f \in UNION {{FileSystem[d][k] : k \in DOMAIN FileSystem[d]} : d \in DOMAIN FileSystem} :
    f.path = path

\* Chunk a precedes chunk b in their file: earlier page, or earlier on the page
ChunkBefore(a, b) ==
  \/ a.page_content.page < b.page_content.page
  \/ a.page_content.page = b.page_content.page /\ a.page_content.from < b.page_content.from

\* C13: in the documents of one ingestion, the i-th chunk of a file (counting
\* from 0 over all pages of the file, in page and text order) has the chunk id
\* (stem of the file, i); no two chunks of one file share an id.
C13_ChunkIdsPerFile ==
  \A t \in Threads : pc[t] \in IngestPcs =>
    LET D == documents[t] IN
    \A i \in DOMAIN D :
      LET same == {j \in DOMAIN D : D[j].metadata.source = D[i].metadata.source}
      IN /\ D[i].metadata.chunk_id =
              << FileAt(D[i].metadata.source).stem,
                 Cardinality({j \in same : ChunkBefore(D[j], D[i])}) >>
         /\ \A j \in same : j < i <=> ChunkBefore(D[j], D[i])
         /\ \A j \in same : j # i => D[j].metadata.chunk_id # D[i].metadata.chunk_id

\* An ingestion holds the third chunk of a file, on the file's second page,
\* after another file's chunks.
C13_Witness ==
  /\ pc[Caller] \in IngestPcs
  /\ \E i \in DOMAIN documents[Caller] :
       /\ i > 3
       /\ documents[Caller][i].metadata.chunk_id[2] = 2
       /\ documents[Caller][i].metadata.page = 1

\* (source file, chunk id, chunk text) of an index entry
TripleOf(e) == <<e.doc.metadata.source, e.doc.metadata.chunk_id, e.doc.page_content>>

\* How often ingest call c stored the triple tr
TripleCount(c, tr) ==
  Cardinality({i \in DOMAIN index : index[i].call = c /\ TripleOf(index[i]) = tr})

\* C14: two ingestions of the same directory that have returned stored the
\* same multiset of (source file, chunk id, chunk text) triples, in whatever
\* order each of them found the files.
C14_IdStability ==
  \A r1, r2 \in returned :
    r1.directory = r2.directory =>
      \A i \in DOMAIN index :
        TripleCount(r1.call, TripleOf(index[i])) = TripleCount(r2.call, TripleOf(index[i]))

\* The same directory of several files was ingested twice, the second time
\* with the files found in another order.
C14_Witness ==
  \E r1, r2 \in returned :
    /\ r1.call = 1 /\ r2.call = 2 /\ r1.directory = r2.directory
    /\ r1.chunks > 3 /\ Len(index) = r1.chunks + r2.chunks
    /\ index[1].doc.metadata.source # index[r1.chunks + 1].doc.metadata.source

\* The entries of a directory tree that are files of a supported format,
\* whatever the case of their extension
SupportedFiles(dir) ==
  {k \in DOMAIN FileSystem[dir] :
     /\ ~FileSystem[dir][k].is_dir
     /\ FileSystem[dir][k].suffix \in {".pdf", ".txt", ".md", ".PDF", ".TXT", ".MD"}}

RECURSIVE SumOver(_, _)
SumOver(S, f) ==
  IF S = {} THEN 0
  ELSE LET k == CHOOSE x \in S : TRUE IN f[k] + SumOver(S \ {k}, f)

\* C20: the metrics of an ingest that returned: files counts the supported
\* files of the directory tree (sub-directories and other files count for
\* nothing), pages the pages loaded from them, chunks the chunks of these
\* files, which is what the call added to the index.
C20_MetricsCountFilesPagesChunks ==
  (last.op = "ingest" /\ last.error = "") =>
    LET dir == DirOf(last.obs.source)
        S == SupportedFiles(dir)
        stored == {i \in DOMAIN index : index[i].call = last.obs.call}
        per_file == [k \in S |->
                       Cardinality({i \in stored :
                                      index[i].doc.metadata.source = FileSystem[dir][k].path})]
    IN /\ last.metrics.files = Cardinality(S)
       /\ last.metrics.pages = SumOver(S, [k \in S |-> Len(FileSystem[dir][k].pages)])
       /\ last.metrics.chunks = SumOver(S, per_file)
       /\ last.metrics.chunks = Cardinality(stored)

\* An ingest of a tree with a sub-directory, an upper-case extension and a
\* PDF of two pages returned its metrics after an earlier ingest.
C20_Witness ==
  /\ last.op = "ingest" /\ last.error = "" /\ last.obs.source = "manual"
  /\ last.obs.call = 2
  /\ last.metrics.files = 3 /\ last.metrics.pages = 4 /\ last.metrics.chunks = 5
  /\ Len(index) > 5

\* The first 220 characters of a chunk's text, line breaks turned into
\* blanks, followed by three dots
SnippetOf(c) ==
  [j \in 1..Min(c.to - c.from + 1, 220) |->
     IF page_char(c.from + j - 1) = "\n" THEN " " ELSE page_char(c.from + j - 1)]
  \o <<".", ".", ".">>

\* C17: a query whose backend call failed (invoke raised, or returned a
\* malformed response) goes on to the lock, and when it returns, it returns
\* without error the extractive answer for the chunks it retrieved, with the
\* sources of these chunks, and its entry is the head of the history.
C17_BackendFailureFallsBack ==
  [][ \A t \in Threads :
        /\ (pc[t] = "query_generate" /\ obs'[t].llm_failed) => pc'[t] = "query_lock"
        /\ (pc[t] = "query_append" /\ pc'[t] = "idle" /\ obs[t].llm_failed) =>
             /\ last'.op = "query" /\ last'.error = ""
             /\ last'.result.answer.kind = "fallback"
             /\ Len(last'.result.answer.snippets) = Len(docs[t])
             /\ \A i \in DOMAIN docs[t] :
                  /\ last'.result.answer.snippets[i].label = i
                  /\ last'.result.answer.snippets[i].text = SnippetOf(docs[t][i].page_content)
                  /\ last'.result.sources[i].chunk_id = docs[t][i].metadata.chunk_id
                  /\ last'.result.sources[i].source = docs[t][i].metadata.source
             /\ Len(last'.result.sources) = Len(docs[t])
             /\ Len(history') >= 1 /\ history'[1] = last'.result
    ]_vars

\* C19: a query with a non-blank question that began after an ingest had
\* returned has at least one source and not the fixed answer; without a
\* backend its answer has one snippet per source, each starting the text of
\* the stored chunk that the source names.
C19_QueryAfterIngestFindsSources ==
  (last.op = "query" /\ last.error = "" /\ last.obs.after # {}) =>
    /\ last.result.sources # <<>>
    /\ last.result.answer.kind # "no_information"
    /\ ~llm =>
         /\ last.result.answer.kind = "fallback"
         /\ Len(last.result.answer.snippets) = Len(last.result.sources)
         /\ \A i \in DOMAIN last.result.sources :
              \E j \in DOMAIN index :
                /\ index[j].doc.metadata.chunk_id = last.result.sources[i].chunk_id
                /\ index[j].doc.metadata.source = last.result.sources[i].source
                /\ last.result.answer.snippets[i].text = SnippetOf(index[j].doc.page_content)

\* Without a backend, a query begun after a returned ingest answered from
\* top_k chunks.
C19_Witness ==
  /\ ~llm /\ last.op = "query" /\ last.error = "" /\ last.obs.after # {}
  /\ Len(last.result.sources) = top_k
  /\ last.result.answer.kind = "fallback"

\* The calls of _vectorize that are over
Vectorized == IF fn.op = "_vectorize" THEN 1..(fn.k - 1) ELSE {}

\* Byte j (from 1) of the digests of seed-0, seed-1, ... put one after another
DigestByte(seed, j) ==
  sha256(encode_utf8(seed \o <<"-">> \o str_int((j - 1) \div 32)).bytes)[((j - 1) % 32) + 1]

\* C15: two calls on texts that are equal after trimming end the same way,
\* with identical vectors, and a call on a text that is blank after trimming
\* returns the vector of the seed 'empty'.
C15_EmbeddingOfTrimmedText ==
  /\ \A k1, k2 \in Vectorized :
       strip(fn.texts[k1]) = strip(fn.texts[k2]) => fn.out[k1] = fn.out[k2]
  /\ \A k \in Vectorized :
       IsBlank(fn.texts[k]) =>
         /\ fn.out[k].error = ""
         /\ Len(fn.out[k].vector) = fn.dimension
         /\ \A j \in 1..fn.dimension :
              fn.out[k].vector[j].num = DigestByte(<<"e", "m", "p", "t", "y">>, j)

\* Two different texts, equal after trimming and not blank, got the same
\* vector of more than one digest.
C15_Witness ==
  /\ 2 \in Vectorized
  /\ fn.texts[1] # fn.texts[2] /\ strip(fn.texts[1]) = strip(fn.texts[2])
  /\ ~IsBlank(fn.texts[1])
  /\ fn.dimension > 32 /\ Len(fn.out[1].vector) = fn.dimension
  /\ fn.out[1] = fn.out[2]

\* C16: every call that is over, whatever the text and for every dimension
\* d >= 0, ended without error after exactly ceil(d/32) digest rounds, with
\* exactly d components, component j being byte j of the digests for counters
\* 0, 1, 2, ... put one after another, over 255, and so within [0, 1].
C16_VectorizeTerminatesWithDimension ==
  \A k \in Vectorized :
    LET o == fn.out[k]
        seed == IF IsBlank(fn.texts[k]) THEN <<"e", "m", "p", "t", "y">>
                ELSE strip(fn.texts[k])
    IN /\ o.error = ""
       /\ o.rounds = (fn.dimension + 31) \div 32
       /\ Len(o.vector) = fn.dimension
       /\ \A j \in 1..Len(o.vector) :
            /\ o.vector[j].num = DigestByte(seed, j) /\ o.vector[j].den = 255
            /\ 0 <= o.vector[j].num /\ o.vector[j].num <= o.vector[j].den

\* C18: the extractive answer for n >= 1 chunks is the fallback text with
\* exactly n snippets, the i-th labelled i and holding the first 220
\* characters of the i-th chunk's text (all of them when there are fewer),
\* without any line break, each line break of the chunk being a blank.
C18_FallbackAnswerSnippets ==
  (fn.op = "_generate_answer" /\ fn.at = "return") =>
    /\ Len(fn.documents) >= 1
    /\ fn.answer.kind = "fallback"
    /\ Len(fn.answer.snippets) = Len(fn.documents)
    /\ \A i \in DOMAIN fn.documents :
         LET c == fn.documents[i].page_content
             text == fn.answer.snippets[i].text
             held == Len(text) - 3
         IN /\ fn.answer.snippets[i].label = i
            /\ held >= 1 /\ held <= 220 /\ held <= c.to - c.from + 1
            /\ (held = 220 \/ held = c.to - c.from + 1)
            /\ \A j \in 1..held :
                 /\ text[j] # "\n"
                 /\ page_char(c.from + j - 1) # "\n" => text[j] = page_char(c.from + j - 1)
                 /\ page_char(c.from + j - 1) = "\n" => text[j] = " "
            /\ text = SnippetOf(c)

\* The answer for three chunks, one longer than 220 characters and cut, one
\* shorter and whole, with a line break of the first turned into a blank.
C18_Witness ==
  /\ fn.op = "_generate_answer" /\ fn.at = "return"
  /\ Len(fn.documents) = 3
  /\ fn.documents[1].page_content.to - fn.documents[1].page_content.from + 1 > 220
  /\ Len(fn.answer.snippets[1].text) = 223
  /\ fn.documents[2].page_content.to - fn.documents[2].page_content.from + 1 < 220
  /\ \E j \in 1..220 :
       /\ page_char(fn.documents[1].page_content.from + j - 1) = "\n"
       /\ fn.answer.snippets[1].text[j] = " "

\* C30: in the documents of one ingestion no two chunks share both source
\* path and chunk id, while two different files with the same stem each have
\* a chunk with the same chunk id (their first chunks).
C30_ChunkIdsUniquePerFileOnly ==
  \A t \in Threads : pc[t] \in IngestPcs =>
    LET D == documents[t] IN
    /\ \A i, j \in DOMAIN D :
         (D[i].metadata.source = D[j].metadata.source
            /\ D[i].metadata.chunk_id = D[j].metadata.chunk_id) => i = j
    /\ \A i, j \in DOMAIN D :
         (D[i].metadata.source # D[j].metadata.source
            /\ FileAt(D[i].metadata.source).stem = FileAt(D[j].metadata.source).stem) =>
           \E k \in DOMAIN D :
             /\ D[k].metadata.source = D[j].metadata.source
             /\ D[k].metadata.chunk_id[2] = 0
             /\ \E l \in DOMAIN D :
                  /\ D[l].metadata.source = D[i].metadata.source
                  /\ D[l].metadata.chunk_id = D[k].metadata.chunk_id

\* One ingestion holds chunks of a.txt and of sub/a.md with the same chunk id,
\* and several chunks of another file.
C30_Witness ==
  /\ pc[Caller] \in IngestPcs
  /\ \E i, j \in DOMAIN documents[Caller] :
       /\ documents[Caller][i].metadata.source = "manual/a.txt"
       /\ documents[Caller][j].metadata.source = "manual/sub/a.md"
       /\ documents[Caller][i].metadata.chunk_id = documents[Caller][j].metadata.chunk_id
  /\ \E i \in DOMAIN documents[Caller] : documents[Caller][i].metadata.chunk_id[2] = 2

PositionsOf(c) == {i \in DOMAIN index : index[i].call = c}
Highest(S) == CHOOSE i \in S : \A j \in S : j <= i
Lowest(S) == CHOOSE i \in S : \A j \in S : i <= j

\* C28: an ingest counts the collection when it no longer holds the lock; the
\* collection_size it returned is at least the index size at the end of its
\* own addition and at most the present index size, and it is the size
\* before its addition plus its chunks only if no chunk of another ingest
\* came after its own before the count.
C28_CollectionSizeReadAfterRelease ==
  /\ \A t \in Threads : pc[t] = "ingest_count" => lock # t
  /\ (last.op = "ingest" /\ last.error = "") =>
       LET own == PositionsOf(last.obs.call)
           size == last.metrics.collection_size
       IN /\ own # {}
          /\ size >= Highest(own)
          /\ size <= Len(index)
          /\ size = (Lowest(own) - 1) + last.metrics.chunks =>
               ~(\E i \in DOMAIN index : i > Highest(own) /\ i <= size)
          /\ (\E i \in 1..size : i > Highest(own)) =>
               size > (Lowest(own) - 1) + last.metrics.chunks

\* An ingest returned a collection_size that counts chunks another ingest
\* added after its own, that ingest being still at its addition.
C28_Witness ==
  /\ last.op = "ingest" /\ last.error = ""
  /\ last.metrics.collection_size > Highest(PositionsOf(last.obs.call))
  /\ Lowest(PositionsOf(last.obs.call)) = 1
  /\ \E t \in Threads : pc[t] = "ingest_add" /\ added[t] < Len(documents[t])

\* A text without the blanks and line breaks at its two ends
Trimmed(s) ==
  LET keep == {i \in DOMAIN s : s[i] # " " /\ s[i] # "\n"}
  IN IF keep = {} THEN <<>> ELSE SubSeq(s, Lowest(keep), Highest(keep))

\* C22: a query that returns a result with retrieved chunks cites each of
\* them once, in retrieval order, with ranks 1, 2, ..., n; the citation of
\* rank N gives chunk_id, file, page and source of the chunk whose text stands
\* under the label N in the context and in the extractive answer.
C22_SourcesMatchLabels ==
  [][ \A t \in Threads :
        (pc[t] = "query_append" /\ pc'[t] = "idle") =>
          LET D == docs[t]
              S == last'.result.sources
              X == obs[t].context
              A == last'.result.answer
          IN /\ Len(S) = Len(D) /\ Len(X) = Len(D) /\ Len(D) >= 1
             /\ \A i \in DOMAIN D :
                  /\ S[i].rank = i
                  /\ S[i].chunk_id = D[i].metadata.chunk_id
                  /\ S[i].file = D[i].metadata.file_name
                  /\ S[i].source = D[i].metadata.source
                  /\ S[i].page = IF D[i].metadata.page = -1 THEN "n/a"
                                 ELSE IF D[i].metadata.page = 0 THEN "0" ELSE "1"
                  /\ X[i].label = i
                  /\ X[i].text = Trimmed([j \in 1..(D[i].page_content.to - D[i].page_content.from + 1)
                                            |-> page_char(D[i].page_content.from + j - 1)])
                  /\ A.kind = "fallback" =>
                       /\ A.snippets[i].label = i
                       /\ A.snippets[i].text = SnippetOf(D[i].page_content)
    ]_vars

\* A query returned two citations of different chunks, one of them on the
\* second page of a PDF, under an extractive answer.
C22_Witness ==
  /\ last.op = "query" /\ last.error = ""
  /\ Len(last.result.sources) = 2
  /\ \E i \in 1..2 : last.result.sources[i].page = "1"
  /\ last.result.sources[1].chunk_id # last.result.sources[2].chunk_id
  /\ last.result.answer.kind = "fallback"
  /\ Len(last.obs.context) = 2

\* C24: a query makes at most one similarity search and at most one call of
\* the backend, exactly one of each when it returns a result with sources
\* from a pipeline with a backend; a failed backend call is its only one. An
\* ingest stores each of its chunks once: never more entries than chunks, and
\* exactly its chunks when it has returned.
C24_NoRetries ==
  /\ \A t \in Threads :
       /\ obs[t].searches <= 1 /\ obs[t].llm_calls <= 1
       /\ pc[t] \in {"query_generate", "query_lock", "query_append"} => obs[t].searches = 1
       /\ (pc[t] \in {"query_lock", "query_append"} /\ llm) => obs[t].llm_calls = 1
       /\ pc[t] \in IngestPcs =>
            Cardinality(PositionsOf(obs[t].call)) = added[t] /\ added[t] <= metrics[t].chunks
  /\ last.op = "query" =>
       /\ last.obs.searches <= 1 /\ last.obs.llm_calls <= 1
       /\ last.error = "" => last.obs.searches = 1
       /\ last.obs.llm_failed => last.obs.llm_calls = 1
       /\ ~llm => last.obs.llm_calls = 0
  /\ \A r \in returned : Cardinality(PositionsOf(r.call)) = r.chunks

\* A query whose one backend call failed returned the extractive answer after
\* one search.
C24_Witness ==
  /\ last.op = "query" /\ last.error = ""
  /\ last.obs.llm_failed /\ last.obs.llm_calls = 1 /\ last.obs.searches = 1
  /\ last.result.answer.kind = "fallback"
  /\ returned # {}

\* C29: a query holds the lock only at its history append, not during its
\* search, its answer synthesis or its wait for the lock; while a query is in
\* its synthesis, a call that waits for the lock can take it unless the other
\* caller holds it. Between a query's acquiring the lock and its append nobody
\* else changes the history; the append puts the query's own result at the
\* head, so that the entries, numbered as appended, stand in the history once
\* each, latest first, in the order of the lock acquisitions.
C29_QueryLocksOnlyTheAppend ==
  [][ /\ \A t \in Threads :
           /\ pc[t] \in {"query_search", "query_generate", "query_lock"} => lock # t
           /\ pc[t] = "query_append" => lock = t
           /\ pc[t] = "query_generate" =>
                \A u \in Threads \ {t} :
                  /\ (pc[u] = "ingest_lock" /\ lock # u) =>
                       (lock = NoThread /\ ENABLED ingest_acquire(u))
                  /\ (pc[u] = "query_lock" /\ lock # u) =>
                       (lock = NoThread /\ ENABLED query_acquire(u))
           /\ (pc[t] = "query_append" /\ pc'[t] = "query_append") =>
                (history' = history /\ appended' = appended)
           /\ (pc[t] = "query_append" /\ pc'[t] = "idle") =>
                /\ history'[1].question = question[t]
                /\ history'[1].answer = answer[t]
                /\ history'[1].serial = appended + 1
                /\ \A i \in 2..Len(history') : history'[i] = history[i - 1]
      /\ \A i \in DOMAIN history : history[i].serial = appended - i + 1
    ]_vars

\* While one query is in its answer synthesis, an ingest that began later
\* holds the lock and has added chunks.
C29_Witness ==
  \E t, u \in Threads :
    /\ pc[t] = "query_generate" /\ pc[u] = "ingest_add" /\ lock = u
    /\ added[u] >= 1 /\ obs[u].call = 2 /\ obs[t].seen < Len(index)

\* C23: the two steps of a history call change neither the history nor the
\* index (nor the store, the lock or the count of appends), and the list it
\* returns is a prefix of the history as it was at one instant between call
\* and return, that of its copy: entry i of the list is the i-th latest of
\* the entries appended by then, whatever was appended before the return.
C23_HistorySnapshot ==
  [][ \A t \in Threads :
        /\ ((pc[t] = "idle" /\ pc'[t] = "history_slice")
              \/ (pc[t] = "history_slice" /\ pc'[t] = "idle")) =>
             /\ history' = history /\ index' = index
             /\ persisted' = persisted /\ lock' = lock /\ appended' = appended
        /\ (pc[t] = "history_slice" /\ pc'[t] = "idle") =>
             /\ last'.op = "history"
             /\ last'.obs.hist_n <= appended
             /\ Len(last'.items) <= Min(last'.obs.hist_n, chat_history_limit)
             /\ \A i \in DOMAIN last'.items :
                  last'.items[i].serial = last'.obs.hist_n - i + 1
    ]_vars

\* A history call returned entries while a query had appended a newer entry
\* between the copy and the return.
C23_Witness ==
  /\ last.op = "history"
  /\ Len(last.items) >= 1
  /\ last.obs.seen > last.obs.hist_n
  /\ last.items[1].serial = last.obs.hist_n

\* C21: under fair scheduling every call of ingest and of query that is under
\* way returns or fails in the end, and a lock that is held is released in
\* the end, also when the index addition raises; a backend call that does not
\* answer does not hold the query for ever.
C21_EveryCallReturns ==
  /\ \A t \in Threads : (pc[t] # "idle") ~> (pc[t] = "idle")
  /\ \A t \in Threads : (lock = t) ~> (lock # t)

(* ------------------------------------------------------------------ *)
(* ai-proj-2: ReviewPipeline.review                                   *)
(* ------------------------------------------------------------------ *)
MaxLines == 2
MaxLlmIssues == 2
MaxIssuesLimit == 3

\* A line of the reviewed code, by what the heuristic checks see of it
LineKinds == {"plain", "long", "print"}
LineNo == <<"1", "2", "3", "4">>

\* IssuePayload
IssuePayload(severity, issue_type, description, suggestion, line_start, line_end) ==
  [severity |-> severity, issue_type |-> issue_type, description |-> description,
   suggestion |-> suggestion, line_start |-> line_start, line_end |-> line_end]

long_line_issue(idx) ==
  IssuePayload("low", "style",
               <<"Line ", LineNo[idx], " exceeds 120 characters.">>,
               <<"Break the line or refactor into helper functions.">>,
               LineNo[idx], LineNo[idx])

print_issue(idx) ==
  IssuePayload("medium", "logic",
               <<"Suspicious print statement at line ", LineNo[idx], ".">>,
               <<"Check parentheses balance; looks like unfinished call.">>,
               LineNo[idx], LineNo[idx])

dict_keys_issue ==
  IssuePayload("medium", "performance",
               <<"Using dict.keys() inside loop is inefficient.">>,
               <<"Iterate directly over the dictionary: for key in dict:">>, None, None)

\* HeuristicReviewer.analyze: one issue per long line and per unfinished
\* print call in line order, then one for a loop over dict.keys()
RECURSIVE analyze_lines(_, _)
analyze_lines(lines, idx) ==
  IF idx > Len(lines) THEN <<>>
  ELSE (CASE lines[idx] = "long"  -> <<long_line_issue(idx)>>
          [] lines[idx] = "print" -> <<print_issue(idx)>>
          [] OTHER                -> <<>>) \o analyze_lines(lines, idx + 1)

heuristic_analyze(code) ==
  analyze_lines(code.lines, 1) \o (IF code.dict_keys THEN <<dict_keys_issue>> ELSE <<>>)

\* LLMReviewer.analyze with self.llm None
fake_llm_issues ==
  << IssuePayload("medium", "documentation", <<"Function lacks docstring.">>,
                  <<"Add docstring summarizing parameters and return values.">>,
                  None, None) >>

\* The issues a backend may name in its JSON answer
LlmIssues ==
  { IssuePayload("critical", "logic", <<"d">>, <<"s">>, "1", "1"),
    IssuePayload("Critical", "logic", <<" ", "d">>, <<"s", " ">>, "1", "2"),
    IssuePayload("info", "style", <<"e">>, <<"s">>, None, None),
    IssuePayload("HIGH", "logic", <<"d">>, <<"t">>, "2", "2"),
    IssuePayload("medium", "logic",
                 <<"Suspicious print statement at line ", "1", ".", newline>>,
                 <<" ", "Check parentheses balance; looks like unfinished call.">>,
                 "1", "1") }

\* severity.lower()
severity_lower(severity) ==
  CASE severity = "Critical" -> "critical"
    [] severity = "HIGH"     -> "high"
    [] OTHER                 -> severity

severity_to_numeric_as_given(severity) ==
  CASE severity = "critical" -> 4
    [] severity = "high"     -> 3
    [] severity = "medium"   -> 2
    [] OTHER                 -> 1

\* utils.severity_to_numeric
severity_to_numeric(severity) ==
  CASE severity_lower(severity) = "critical" -> 4
    [] severity_lower(severity) = "high"     -> 3
    [] severity_lower(severity) = "medium"   -> 2
    [] severity_lower(severity) = "low"      -> 1
    [] OTHER                                 -> 1

\* combined.sort(key=..., reverse=True): the sort is stable, issues of one
\* severity keep their order
RECURSIVE sort_by_severity(_, _)
sort_by_severity(issues, rank) ==
  IF rank = 0 THEN <<>>
  ELSE SelectSeq(issues, LAMBDA issue : severity_to_numeric(issue.severity) = rank)
         \o sort_by_severity(issues, rank - 1)

\* combined[: max_issues], max_issues not negative
trim(issues, max_issues) == SubSeq(issues, 1, Min(max_issues, Len(issues)))

issue_key_unstripped(issue) == <<issue.description, issue.suggestion>>

\* key = (issue.description.strip(), issue.suggestion.strip())
issue_key(issue) == <<strip(issue.description), strip(issue.suggestion)>>

\* utils.deduplicate_issues: the first issue of every key, in order
RECURSIVE dedupe(_, _)
dedupe(issues, seen) ==
  IF issues = <<>> THEN <<>>
  ELSE IF issue_key(Head(issues)) \in seen THEN dedupe(Tail(issues), seen)
  ELSE <<Head(issues)>> \o dedupe(Tail(issues), seen \cup {issue_key(Head(issues))})

deduplicate_issues(issues) == dedupe(issues, {})

SeqsUpTo(S, n) == UNION { [1..k -> S] : k \in 0..n }

InitReview ==
  /\ index = <<>>
  /\ persisted = 0
  /\ lock = NoThread
  /\ history = <<>>
  /\ llm = FALSE
  /\ pc = [t \in Threads |-> "idle"]
  /\ documents = [t \in Threads |-> <<>>]
  /\ metrics = [t \in Threads |-> NoMetrics]
  /\ added = [t \in Threads |-> 0]
  /\ question = [t \in Threads |-> <<>>]
  /\ docs = [t \in Threads |-> <<>>]
  /\ answer = [t \in Threads |-> no_information_answer]
  /\ last = NoLast
  /\ workload = [ingest |-> 0, query |-> 0, history |-> 0]
  /\ calls = [ingest |-> 0, query |-> 0, history |-> 0]
  /\ obs = [t \in Threads |-> NoObs]
  /\ appended = 0
  /\ returned = {}
  /\ \E lines \in SeqsUpTo(LineKinds, MaxLines) :
       \E dict_keys \in (IF lines = <<>> THEN {FALSE} ELSE BOOLEAN) :
         \E answered \in ({fake_llm_issues} \cup SeqsUpTo(LlmIssues, MaxLlmIssues)) :
           \E max_issues \in 0..MaxIssuesLimit :
             fn = [op |-> "review", at |-> "call",
                   code |-> [lines |-> lines, dict_keys |-> dict_keys],
                   answered |-> answered, max_issues |-> max_issues,
                   issues |-> <<>>, llm_issues |-> <<>>, combined |-> <<>>,
                   trimmed |-> <<>>, result |-> <<>>]

\* issues = self.heuristic.analyze(code)
review_heuristic ==
  /\ fn.op = "review" /\ fn.at = "call"
  /\ fn' = [fn EXCEPT !.at = "heuristic", !.issues = heuristic_analyze(fn.code)]
  /\ UNCHANGED pipeline

\* self.llm_reviewer.analyze(code, context) on empty code: ValueError
review_llm_raises ==
  /\ fn.op = "review" /\ fn.at = "heuristic"
  /\ fn.code.lines = <<>>
  /\ fn' = [fn EXCEPT !.at = "raise"]
  /\ UNCHANGED pipeline

\* llm_result = self.llm_reviewer.analyze(code, context)
review_llm ==
  /\ fn.op = "review" /\ fn.at = "heuristic"
  /\ fn.code.lines # <<>>
  /\ fn' = [fn EXCEPT !.at = "llm", !.llm_issues = fn.answered]
  /\ UNCHANGED pipeline

\* combined = issues + llm_result.issues; combined.sort(...)
review_sort ==
  /\ fn.op = "review" /\ fn.at = "llm"
  /\ fn' = [fn EXCEPT !.at = "sorted",
                      !.combined = sort_by_severity(fn.issues \o fn.llm_issues, 4)]
  /\ UNCHANGED pipeline

\* trimmed = combined[: self.settings.max_issues]
review_trim ==
  /\ fn.op = "review" /\ fn.at = "sorted"
  /\ fn' = [fn EXCEPT !.at = "trimmed", !.trimmed = trim(fn.combined, fn.max_issues)]
  /\ UNCHANGED pipeline

\* unique = deduplicate_issues(trimmed); return ReviewResult(summary, unique)
review_return ==
  /\ fn.op = "review" /\ fn.at = "trimmed"
  /\ fn' = [fn EXCEPT !.at = "return", !.result = deduplicate_issues(fn.trimmed)]
  /\ UNCHANGED pipeline

NextReview ==
  \/ review_heuristic
  \/ review_llm_raises
  \/ review_llm
  \/ review_sort
  \/ review_trim
  \/ review_return

SpecReview == InitReview /\ [][NextReview]_vars

\* The severity rank the claim names: critical > high > medium > low, any
\* other word as low, whatever its case
SeverityRank(severity) ==
  IF severity \in {"critical", "Critical"} THEN 4
  ELSE IF severity \in {"high", "HIGH"} THEN 3
  ELSE IF severity = "medium" THEN 2
  ELSE 1

StrippedPairs(issues) ==
  { <<strip(issues[i].description), strip(issues[i].suggestion)>> : i \in DOMAIN issues }

\* C25: review returns at most max_issues issues, in order of non-increasing
\* severity (critical > high > medium > low, an unknown severity as low), no
\* two of them with the same stripped (description, suggestion) pair; they
\* are the first issue of every such pair among the max_issues most severe
\* of the issues found, so duplicates among those shorten the result and
\* issues past the cut never fill it up.
C25_ReviewTrimsThenDeduplicates ==
  (fn.op = "review" /\ fn.at = "return") =>
    LET found == fn.issues \o fn.llm_issues
        cut == SubSeq(fn.combined, 1, Min(fn.max_issues, Len(fn.combined)))
    IN /\ Len(fn.result) <= fn.max_issues
       /\ \A i, j \in DOMAIN fn.result :
            i < j => SeverityRank(fn.result[i].severity) >= SeverityRank(fn.result[j].severity)
       /\ \A i, j \in DOMAIN fn.result :
            i # j => <<strip(fn.result[i].description), strip(fn.result[i].suggestion)>>
                       # <<strip(fn.result[j].description), strip(fn.result[j].suggestion)>>
       /\ Len(fn.combined) = Len(found)
       /\ \A issue \in { found[i] : i \in DOMAIN found } :
            Cardinality({i \in DOMAIN found : found[i] = issue})
              = Cardinality({i \in DOMAIN fn.combined : fn.combined[i] = issue})
       /\ \A i, j \in DOMAIN fn.combined :
            i < j => SeverityRank(fn.combined[i].severity) >= SeverityRank(fn.combined[j].severity)
       /\ Len(fn.result) = Cardinality(StrippedPairs(cut))
       /\ StrippedPairs(fn.result) = StrippedPairs(cut)

\* A review returned fewer than max_issues issues although the issues found
\* held at least max_issues distinct stripped pairs.
C25_Witness ==
  /\ fn.op = "review" /\ fn.at = "return"
  /\ Len(fn.result) < fn.max_issues
  /\ Cardinality(StrippedPairs(fn.combined)) >= fn.max_issues
  /\ \E i \in DOMAIN fn.result : fn.result[i].severity = "Critical"

(* ------------------------------------------------------------------ *)
(* ai-proj-5: ResearchOrchestrator                                    *)
(* ------------------------------------------------------------------ *)
MaxCacheEntries == 2
MaxPlanned == 2
MaxSourcesArg == 2

\* settings.default_max_sources
default_max_sources == 2

\* [:3] of PlannerAgent.plan
PlannerCap == 3

\* The topic researched; a query is a sequence of pieces of text
Topic == "Testing"

\* One search result: {"title": ..., "url": ..., "snippet": ...}
source_item(title) == [title |-> title, url |-> "https://example.com", snippet |-> "Sample evidence"]

\* str.lower() on a piece of a query
piece_lower(piece) ==
  CASE piece = "Define key concepts of "                  -> "define key concepts of "
    [] piece = "Identify recent developments about "      -> "identify recent developments about "
    [] piece = "Highlight challenges and opportunities in " -> "highlight challenges and opportunities in "
    [] piece = "Testing"                                  -> "testing"
    [] piece = "What is new?"                             -> "what is new?"
    [] piece = "Unrelated"                                -> "unrelated"
    [] OTHER                                              -> piece

query_lower_identity(query) == query

\* query.lower()
query_lower(query) == [i \in DOMAIN query |-> piece_lower(query[i])]

\* PlannerAgent.plan with use_fake_llm
fallback_prompts(topic) ==
  << <<"Define key concepts of ", topic>>,
     <<"Identify recent developments about ", topic>>,
     <<"Highlight challenges and opportunities in ", topic>> >>

\* The sub-questions a planning backend may answer with
PlannerQueries == { <<"Define key concepts of ", Topic>>, <<"What is new?">> }

\* The "queries" of the cache file: {"query": ..., "results": [...]}
CacheQueries ==
  { <<"Define key concepts of ", "testing">>,
    <<"define key concepts of ", "testing">>,
    <<"Unrelated">> }

CacheResults ==
  { <<>>,
    <<source_item("a1"), source_item("a2"), source_item("a3")>>,
    <<source_item("b1")>> }

CacheEntries == { [query |-> q, results |-> r] : q \in CacheQueries, r \in CacheResults }

\* What researcher.search may return when it asks the search service
LiveResults == { <<>>, <<source_item("w1"), source_item("w2"), source_item("w3")>> }

\* cache[key] = results: a new key goes last, a key already there keeps its
\* place and takes the new results
cache_put(cache, key, results) ==
  IF \E i \in DOMAIN cache : cache[i].key = key
  THEN [i \in DOMAIN cache |->
          IF cache[i].key = key THEN [key |-> key, results |-> results] ELSE cache[i]]
  ELSE Append(cache, [key |-> key, results |-> results])

\* _load_cache: the dict of the file's entries, in insertion order
RECURSIVE _load_cache(_, _)
_load_cache(entries, cache) ==
  IF entries = <<>> THEN cache
  ELSE _load_cache(Tail(entries),
                   cache_put(cache, query_lower(Head(entries).query), Head(entries).results))

\* self.cached_data.get(key): None, which is as false as [], when absent
cached_data_get(cache, key) ==
  IF \E i \in DOMAIN cache : cache[i].key = key
  THEN (CHOOSE e \in { cache[i] : i \in DOMAIN cache } : e.key = key).results
  ELSE <<>>

first_value_or_empty(cache) == <<>>

\* next(iter(self.cached_data.values()))
first_value(cache) == cache[1].results

\* _search_with_fallback, given what researcher.search returned
_search_with_fallback(results, cache, query) ==
  IF results # <<>> THEN results
  ELSE IF cached_data_get(cache, query_lower(query)) # <<>>
       THEN cached_data_get(cache, query_lower(query))
  ELSE IF cache # <<>> THEN first_value(cache)
  ELSE <<>>

\* max_sources or self.settings.default_max_sources
effective_max_sources(max_sources) ==
  IF max_sources = 0 THEN default_max_sources ELSE max_sources

\* query_results[:max_sources]
first_sources(query_results, max_sources) ==
  SubSeq(query_results, 1, Min(max_sources, Len(query_results)))

\* A cache file absent or undecodable leaves the cache empty; max_sources 0
\* stands for None (the request schema admits None or 1..15)
InitResearch ==
  /\ index = <<>>
  /\ persisted = 0
  /\ lock = NoThread
  /\ history = <<>>
  /\ llm = FALSE
  /\ pc = [t \in Threads |-> "idle"]
  /\ documents = [t \in Threads |-> <<>>]
  /\ metrics = [t \in Threads |-> NoMetrics]
  /\ added = [t \in Threads |-> 0]
  /\ question = [t \in Threads |-> <<>>]
  /\ docs = [t \in Threads |-> <<>>]
  /\ answer = [t \in Threads |-> no_information_answer]
  /\ last = NoLast
  /\ workload = [ingest |-> 0, query |-> 0, history |-> 0]
  /\ calls = [ingest |-> 0, query |-> 0, history |-> 0]
  /\ obs = [t \in Threads |-> NoObs]
  /\ appended = 0
  /\ returned = {}
  /\ \E entries \in SeqsUpTo(CacheEntries, MaxCacheEntries) :
       \E use_fake_llm \in BOOLEAN : \E use_fake_search \in BOOLEAN :
         \E max_sources \in 0..MaxSourcesArg :
           fn = [op |-> "run", at |-> "call",
                 use_fake_llm |-> use_fake_llm, use_fake_search |-> use_fake_search,
                 cached_data |-> _load_cache(entries, <<>>),
                 topic |-> Topic, max_sources |-> max_sources,
                 planner_steps |-> <<>>, step |-> 1, resolved |-> <<>>,
                 sources |-> <<>>, result |-> <<>>]

\* max_sources = max_sources or default; planner_steps = self.planner.plan(topic)
run_plan ==
  /\ fn.op = "run" /\ fn.at = "call"
  /\ \E planned \in (IF fn.use_fake_llm THEN {fallback_prompts(fn.topic)}
                     ELSE SeqsUpTo(PlannerQueries, Min(MaxPlanned, PlannerCap))) :
       fn' = [fn EXCEPT !.at = "loop",
                        !.max_sources = effective_max_sources(fn.max_sources),
                        !.planner_steps = planned]
  /\ UNCHANGED pipeline

\* One round of "for step in planner_steps": the search, its fallbacks, and
\* the first max_sources results appended to the sources
run_step ==
  /\ fn.op = "run" /\ fn.at = "loop"
  /\ fn.step <= Len(fn.planner_steps)
  /\ \E results \in (IF fn.use_fake_search THEN {<<>>} ELSE LiveResults) :
       LET query == fn.planner_steps[fn.step]
           query_results == _search_with_fallback(results, fn.cached_data, query)
           taken == first_sources(query_results, fn.max_sources)
       IN fn' = [fn EXCEPT !.step = fn.step + 1,
                           !.resolved = Append(fn.resolved,
                                               [query |-> query, live |-> results,
                                                query_results |-> query_results,
                                                taken |-> taken]),
                           !.sources = fn.sources \o taken]
  /\ UNCHANGED pipeline

\* After the loop: the summary, and the result with the sources
run_return ==
  /\ fn.op = "run" /\ fn.at = "loop"
  /\ fn.step > Len(fn.planner_steps)
  /\ fn' = [fn EXCEPT !.at = "return", !.result = fn.sources]
  /\ UNCHANGED pipeline

NextResearch == run_plan \/ run_step \/ run_return

SpecResearch == InitResearch /\ [][NextResearch]_vars

\* The results the cache holds under a key, as a set: empty when the key is
\* absent, else the one list stored under it
StoredUnder(cache, key) == { cache[i].results : i \in { j \in DOMAIN cache : cache[j].key = key } }

LowerCased(query) ==
  [i \in DOMAIN query |->
     IF query[i] = "Define key concepts of " THEN "define key concepts of "
     ELSE IF query[i] = "Identify recent developments about " THEN "identify recent developments about "
     ELSE IF query[i] = "Highlight challenges and opportunities in " THEN "highlight challenges and opportunities in "
     ELSE IF query[i] = "Testing" THEN "testing"
     ELSE IF query[i] = "What is new?" THEN "what is new?"
     ELSE IF query[i] = "Unrelated" THEN "unrelated"
     ELSE query[i]]

\* Every step so far took its evidence by the order of precedence: live
\* results when there are any, else the non-empty results cached under the
\* lower-cased query, else the first cache entry's results, else nothing;
\* and at most max_sources of them went to the sources.
PrecedenceKept ==
  /\ \A k \in DOMAIN fn.resolved :
       LET r == fn.resolved[k]
           own == StoredUnder(fn.cached_data, LowerCased(r.query)) \ {<<>>}
       IN /\ r.query = fn.planner_steps[k]
          /\ r.live # <<>> => r.query_results = r.live
          /\ (r.live = <<>> /\ own # {}) => r.query_results \in own
          /\ (r.live = <<>> /\ own = {} /\ fn.cached_data # <<>>) =>
               r.query_results = fn.cached_data[1].results
          /\ (r.live = <<>> /\ own = {} /\ fn.cached_data = <<>>) => r.query_results = <<>>
          /\ Len(r.taken) <= fn.max_sources
          /\ Len(r.taken) <= Len(r.query_results)
          /\ \A i \in DOMAIN r.taken : r.taken[i] = r.query_results[i]
  /\ Len(fn.sources) <= fn.max_sources * Len(fn.resolved)

\* The claim as stated: evidence is resolved by the order of precedence, and
\* with fake search and a cache whose first entry has results every run
\* returns a non-empty sources list of at most max_sources items per step.
C26_SourcesNeverEmptyAsStated ==
  (fn.op = "run" /\ fn.at # "call") =>
    /\ PrecedenceKept
    /\ (fn.at = "return" /\ fn.use_fake_search
          /\ fn.cached_data # <<>> /\ fn.cached_data[1].results # <<>>) =>
         /\ fn.result # <<>>
         /\ Len(fn.result) <= fn.max_sources * Len(fn.planner_steps)

\* C26: for each planner step the evidence is the live search results when
\* there are any, else the non-empty results cached under the lower-cased
\* query, else the results of the first cache entry when the cache is not
\* empty, else nothing; so with fake search, a cache whose first entry has
\* results and at least one planner step (the fake planner always gives
\* three), run returns a non-empty sources list with at most max_sources
\* items per planner step.
C26_EvidencePrecedence ==
  (fn.op = "run" /\ fn.at # "call") =>
    /\ PrecedenceKept
    /\ (fn.at = "return" /\ fn.use_fake_search /\ Len(fn.planner_steps) >= 1
          /\ fn.cached_data # <<>> /\ fn.cached_data[1].results # <<>>) =>
         /\ fn.result # <<>>
         /\ Len(fn.result) <= fn.max_sources * Len(fn.planner_steps)

\* A run with fake search returned sources where one step took the results
\* cached under its lower-cased query, cut to max_sources, and another the
\* first cache entry's.
C26_Witness ==
  /\ fn.op = "run" /\ fn.at = "return"
  /\ fn.use_fake_search
  /\ Len(fn.cached_data) = 2 /\ fn.cached_data[1].results # <<>>
  /\ fn.result # <<>>
  /\ \E k \in DOMAIN fn.resolved :
       /\ fn.resolved[k].query_results = fn.cached_data[2].results
       /\ fn.resolved[k].query_results # fn.cached_data[1].results
       /\ Len(fn.resolved[k].taken) < Len(fn.resolved[k].query_results)
  /\ \E k \in DOMAIN fn.resolved :
       fn.resolved[k].query_results = fn.cached_data[1].results

====
